---- MODULE Spec2Model ----
(***************************************************************************)
(* Model of the variation engine and scaled-glyph builder of the imt font  *)
(* library (imt/src/util/variation.rs, imt/src/raster/mod.rs and the table *)
(* acceptance checks of imt/src/parse).                                    *)
(*                                                                         *)
(* f32 values are modelled as exact rationals <<n, d>> in lowest terms     *)
(* with d > 0; <<0, 0>> stands for the IEEE NaN.  Sequences are 1-based,   *)
(* so element i of a Rust slice is element i + 1 here; glyph ids and gvar  *)
(* point numbers keep their 0-based values.                                *)
(***************************************************************************)
EXTENDS Integers, Sequences, FiniteSets, TLC

VARIABLES font, pc, call, ret

vars == <<font, pc, call, ret>>

----------------------------------------------------------------------------
(* Rational arithmetic standing in for f32 arithmetic.                     *)

Abs(x) == IF x < 0 THEN -x ELSE x

RECURSIVE Gcd(_, _)
Gcd(a, b) == IF b = 0 THEN a ELSE Gcd(b, a % b)

NaN == <<0, 0>>

IsNaN(a) == a[2] = 0

Rat(n, d) ==
    IF d = 0 THEN NaN
    ELSE LET g == Gcd(Abs(n), Abs(d))
         IN  <<(IF d < 0 THEN -n ELSE n) \div g, Abs(d) \div g>>

Num(n) == <<n, 1>>

Add(a, b) == IF IsNaN(a) \/ IsNaN(b) THEN NaN
             ELSE Rat(a[1] * b[2] + b[1] * a[2], a[2] * b[2])

Neg(a) == <<-a[1], a[2]>>

Sub(a, b) == Add(a, Neg(b))

Mul(a, b) == IF IsNaN(a) \/ IsNaN(b) THEN NaN
             ELSE Rat(a[1] * b[1], a[2] * b[2])

\* Division by a non-zero divisor; 0 / 0 is NaN.  No caller below divides a
\* non-zero value by zero except the avar interpolation, which treats the
\* infinite quotient itself (see avar_interpolate).
Div(a, b) == IF IsNaN(a) \/ IsNaN(b) THEN NaN
             ELSE Rat(a[1] * b[2], a[2] * b[1])

\* IEEE comparisons: every comparison with NaN is false.
Lt(a, b) == ~IsNaN(a) /\ ~IsNaN(b) /\ a[1] * b[2] < b[1] * a[2]
Le(a, b) == ~IsNaN(a) /\ ~IsNaN(b) /\ a[1] * b[2] <= b[1] * a[2]
Gt(a, b) == Lt(b, a)
Ge(a, b) == Le(b, a)
Eq(a, b) == ~IsNaN(a) /\ ~IsNaN(b) /\ a = b

RatMin(a, b) == IF Lt(b, a) THEN b ELSE a
RatMax(a, b) == IF Gt(b, a) THEN b ELSE a

\* f32::clamp: NaN stays NaN.
Clamp(a, lo, hi) == IF IsNaN(a) THEN NaN
                    ELSE IF Lt(a, lo) THEN lo
                    ELSE IF Gt(a, hi) THEN hi ELSE a

Max(S) == CHOOSE x \in S : \A y \in S : y <= x

----------------------------------------------------------------------------
(* Bounds and input domains.                                               *)

\* User-space coordinates handed to normalize_axis_coords range over
\* 0 .. MaxUser (in units of 100 design units).
MaxUser == 11

\* Longest avar segment map drawn by Init.
MaxMapLen == 4

\* min / default / max of an fvar axis are drawn from these values.
AxisVals == {1, 4, 10}

\* F2Dot14 values used for avar breakpoints.
AvarGrid == {Rat(-1, 1), Rat(-1, 2), Rat(0, 1), Rat(1, 2), Rat(1, 1)}

None == [present |-> FALSE]

----------------------------------------------------------------------------
(* avar acceptance (AvarTable::try_parse sanity checks).                   *)

\* A segment map is a sequence of [from_coord, to_coord].
AvarAccepts(m) ==
    \/ Len(m) = 0
    \/ /\ Len(m) >= 3
       /\ m[1].from_coord = Num(-1) /\ m[1].to_coord = Num(-1)
       /\ m[Len(m)].from_coord = Num(1) /\ m[Len(m)].to_coord = Num(1)
       /\ \A i \in 2 .. Len(m) - 1 :
             /\ ~Lt(m[i].from_coord, m[i - 1].to_coord)
             /\ ~Gt(m[i].to_coord, m[i + 1].from_coord)
       /\ \E i \in 2 .. Len(m) - 1 :
             m[i].from_coord = Num(0) /\ m[i].to_coord = Num(0)

AvarEntry == [from_coord : AvarGrid, to_coord : AvarGrid]

AvarFirst == [from_coord |-> Num(-1), to_coord |-> Num(-1)]

AvarLast == [from_coord |-> Num(1), to_coord |-> Num(1)]

\* The maps the parser accepts: empty, or the two required end entries
\* around 1 .. MaxMapLen - 2 interior entries.
SegmentMaps ==
    {m \in {<<>>} \cup
            UNION {{<<AvarFirst>> \o mid \o <<AvarLast>> :
                       mid \in [1 .. n -> AvarEntry]} :
                   n \in 1 .. MaxMapLen - 2} :
        AvarAccepts(m)}

----------------------------------------------------------------------------
(* normalize_axis_coords                                                   *)

\* normalize_linear with the positive side divided by the whole axis range
\* (max - min) instead of (max - default).
normalize_linear_full_range(axis, c) ==
    IF Le(c, axis.min_value) THEN [done |-> TRUE, c |-> Num(-1)]
    ELSE IF Ge(c, axis.max_value) THEN [done |-> TRUE, c |-> Num(1)]
    ELSE IF Lt(c, axis.default_value)
         THEN [done |-> FALSE,
               c |-> Div(Sub(c, axis.default_value),
                         Sub(axis.default_value, axis.min_value))]
    ELSE IF Gt(c, axis.default_value)
         THEN [done |-> FALSE,
               c |-> Div(Sub(c, axis.default_value),
                         Sub(axis.max_value, axis.min_value))]
    ELSE [done |-> TRUE, c |-> Num(0)]

\* Lines 14-33: clamp, then the linear map on either side of the default.
\* done is TRUE where the code takes `continue` (no avar remapping).
normalize_linear(axis, c) ==
    IF Le(c, axis.min_value) THEN [done |-> TRUE, c |-> Num(-1)]
    ELSE IF Ge(c, axis.max_value) THEN [done |-> TRUE, c |-> Num(1)]
    ELSE IF Lt(c, axis.default_value)
         THEN [done |-> FALSE,
               c |-> Div(Sub(c, axis.default_value),
                         Sub(axis.default_value, axis.min_value))]
    ELSE IF Gt(c, axis.default_value)
         THEN [done |-> FALSE,
               c |-> Div(Sub(c, axis.default_value),
                         Sub(axis.max_value, axis.default_value))]
    ELSE [done |-> TRUE, c |-> Num(0)]

\* Lines 61-65: ((from[k+1] - c) / (from[k+1] / from[k])) * (to[k+1] - to[k])
\* + to[k], clamped.  The inner quotient divides by from[k], which may be
\* +0.0: the IEEE results (signed zero, infinities, NaN) are spelled out.
avar_interpolate(maps, k, c) ==
    LET f0 == maps[k].from_coord
        f1 == maps[k + 1].from_coord
        t0 == maps[k].to_coord
        t1 == maps[k + 1].to_coord
        a  == Sub(f1, c)
        dt == Sub(t1, t0)
    IN  IF f0[1] # 0 /\ f1[1] # 0
        THEN Clamp(Add(Mul(Div(a, Div(f1, f0)), dt), t0), Num(-1), Num(1))
        ELSE IF f0[1] = 0 /\ f1[1] = 0
        THEN NaN                      \* 0/0
        ELSE IF f0[1] = 0
        THEN Clamp(t0, Num(-1), Num(1))   \* a / inf = 0
        ELSE \* f1 = 0: quotient is a zero signed like 1/f0, a / it is +-inf
             IF dt[1] = 0 THEN NaN    \* inf * 0
             ELSE IF (a[1] > 0) = ((f0[1] > 0) = (dt[1] > 0))
                  THEN Num(1) ELSE Num(-1)

\* Lines 36-66.
avar_remap(maps, c) ==
    LET above == {j \in 1 .. Len(maps) : Gt(c, maps[j].from_coord)}
    IN  IF above = {} THEN [err |-> "MalformedFont", c |-> c]
        ELSE LET k == Max(above)
             IN  IF k = Len(maps) THEN [err |-> "MalformedFont", c |-> c]
                 ELSE IF Eq(c, maps[k].from_coord)
                      THEN [err |-> "Ok", c |-> maps[k].to_coord]
                 ELSE IF Eq(c, maps[k + 1].from_coord)
                      THEN [err |-> "Ok", c |-> maps[k + 1].to_coord]
                 ELSE [err |-> "Ok", c |-> avar_interpolate(maps, k, c)]

\* The loop of lines 13-69 from axis i on; an error leaves the coordinates
\* written so far in place.
RECURSIVE normalize_from(_, _, _, _)
normalize_from(fv, av, cs, i) ==
    IF i > Len(cs) THEN [err |-> "Ok", coords |-> cs]
    ELSE LET lin == normalize_linear(fv.axes[i], cs[i])
             cs1 == [cs EXCEPT ![i] = lin.c]
         IN  IF lin.done \/ ~av.present
             THEN normalize_from(fv, av, cs1, i + 1)
             ELSE IF Len(av.segment_maps[i]) <= 3
             THEN normalize_from(fv, av, cs1, i + 1)
             ELSE LET r == avar_remap(av.segment_maps[i], lin.c)
                  IN  IF r.err # "Ok" THEN [err |-> r.err, coords |-> cs1]
                      ELSE normalize_from(fv, av,
                                          [cs EXCEPT ![i] = r.c], i + 1)

normalize_axis_coords(f, cs) ==
    IF ~f.fvar.present THEN [err |-> "MissingTable", coords |-> cs]
    ELSE IF Len(cs) # Len(f.fvar.axes)
         THEN [err |-> "InvalidCoords", coords |-> cs]
    ELSE normalize_from(f.fvar, f.avar, cs, 1)

\* Lines 79 and 165: some coordinate lies outside [-1, 1].
OutOfRange(coords) ==
    \E i \in 1 .. Len(coords) : Lt(coords[i], Num(-1)) \/ Gt(coords[i], Num(1))

----------------------------------------------------------------------------
(* Outline::rebuild.  The callers are in the sources, the method is not;   *)
(* it is modelled from the specification: it refreshes the bounding box    *)
(* from the points (an implicit midpoint lies between two raw points, so   *)
(* it never widens the box) and fails on an outline that breaks the        *)
(* contour invariant (fewer than 3 points, or a leading control point).    *)

RECURSIVE MinOver(_, _, _)
MinOver(pts, coord, i) ==
    IF i = Len(pts) THEN pts[i][coord]
    ELSE RatMin(pts[i][coord], MinOver(pts, coord, i + 1))

RECURSIVE MaxOver(_, _, _)
MaxOver(pts, coord, i) ==
    IF i = Len(pts) THEN pts[i][coord]
    ELSE RatMax(pts[i][coord], MaxOver(pts, coord, i + 1))

\* A contour is a half-open range [start, end) of 0-based point numbers.
ContourOk(o, r) ==
    r.end - r.start >= 3 /\ ~o.points[r.start + 1].control

rebuild(o) ==
    IF \E j \in 1 .. Len(o.contours) : ~ContourOk(o, o.contours[j])
    THEN [err |-> "Err", outline |-> o]
    ELSE [err |-> "Ok",
          outline |-> [o EXCEPT !.x_min = MinOver(o.points, "x", 1),
                                !.x_max = MaxOver(o.points, "x", 1),
                                !.y_min = MinOver(o.points, "y", 1),
                                !.y_max = MaxOver(o.points, "y", 1)]]

----------------------------------------------------------------------------
(* outline_apply_gvar                                                      *)

\* Lines 216-220: the factor of an axis strictly inside (start, end).
interm_factor(c, start, peak, end) ==
    IF Lt(c, peak) THEN Div(Sub(c, start), Sub(peak, start))
    ELSE Div(Sub(end, c), Sub(end, peak))

\* axis_step with the region test ahead of the peak test: a coordinate on
\* the start or end of the region skips the tuple even when it is the peak.
axis_step_region_first(tuple, coords, i, acc) ==
    LET peak == tuple.peak[i]
        c == coords[i]
    IN  IF Eq(peak, Num(0)) THEN acc
        ELSE IF tuple.interm.present
        THEN LET start == tuple.interm.start[i]
                 end == tuple.interm.end[i]
             IN  IF Lt(c, start) \/ Gt(c, end)
                 THEN [acc EXCEPT !.skip = TRUE]
                 ELSE IF Eq(c, start) \/ Eq(c, end)
                 THEN [acc EXCEPT !.skip = TRUE]
                 ELSE IF Eq(peak, c)
                 THEN [acc EXCEPT !.applies = TRUE]
                 ELSE [skip |-> FALSE, applies |-> TRUE,
                       scaler |-> Mul(acc.scaler,
                                      interm_factor(c, start, peak, end))]
        ELSE IF Eq(peak, c)
        THEN [acc EXCEPT !.applies = TRUE]
        ELSE IF Eq(c, Num(0)) \/ Lt(c, RatMin(peak, Num(0)))
                \/ Gt(c, RatMax(peak, Num(0)))
             THEN [acc EXCEPT !.skip = TRUE]
             ELSE [skip |-> FALSE, applies |-> TRUE,
                   scaler |-> Mul(acc.scaler, Div(c, peak))]

\* axis_step without the far-side test of a tuple that has no intermediate
\* region: only a coordinate of 0 or on the other side of 0 skips the tuple.
axis_step_zero_side_only(tuple, coords, i, acc) ==
    LET peak == tuple.peak[i]
        c == coords[i]
    IN  IF Eq(peak, Num(0)) THEN acc
        ELSE IF Eq(peak, c)
        THEN [acc EXCEPT !.applies = TRUE]
        ELSE IF tuple.interm.present
        THEN LET start == tuple.interm.start[i]
                 end == tuple.interm.end[i]
             IN  IF Lt(c, start) \/ Gt(c, end)
                 THEN [acc EXCEPT !.skip = TRUE]
                 ELSE IF Eq(c, start) \/ Eq(c, end)
                 THEN [acc EXCEPT !.skip = TRUE]
                 ELSE [skip |-> FALSE, applies |-> TRUE,
                       scaler |-> Mul(acc.scaler,
                                      interm_factor(c, start, peak, end))]
        ELSE IF Eq(c, Num(0)) \/ (Lt(c, Num(0)) # Lt(peak, Num(0)))
             THEN [acc EXCEPT !.skip = TRUE]
             ELSE [skip |-> FALSE, applies |-> TRUE,
                   scaler |-> Mul(acc.scaler, Div(c, peak))]

\* Lines 187-230: the body of the loop over the axes, for axis i.  acc
\* carries tuple_scaler and tuple_applies; skip is set where the code takes
\* `continue 'tuple`.
axis_step(tuple, coords, i, acc) ==
    LET peak == tuple.peak[i]
        c == coords[i]
    IN  IF Eq(peak, Num(0)) THEN acc
        ELSE IF Eq(peak, c)
        THEN [acc EXCEPT !.applies = TRUE]
        ELSE IF tuple.interm.present
        THEN LET start == tuple.interm.start[i]
                 end == tuple.interm.end[i]
             IN  IF Lt(c, start) \/ Gt(c, end)
                 THEN [acc EXCEPT !.skip = TRUE]
                 ELSE IF Eq(c, start) \/ Eq(c, end)
                 THEN [acc EXCEPT !.skip = TRUE]
                 ELSE [skip |-> FALSE, applies |-> TRUE,
                       scaler |-> Mul(acc.scaler,
                                      interm_factor(c, start, peak, end))]
        ELSE IF Eq(c, Num(0)) \/ Lt(c, RatMin(peak, Num(0)))
                \/ Gt(c, RatMax(peak, Num(0)))
             THEN [acc EXCEPT !.skip = TRUE]
             ELSE [skip |-> FALSE, applies |-> TRUE,
                   scaler |-> Mul(acc.scaler, Div(c, peak))]

\* Lines 186-231: the loop over the axes from axis i on.
RECURSIVE tuple_axes(_, _, _, _)
tuple_axes(tuple, coords, i, acc) ==
    IF i > Len(coords) \/ acc.skip THEN acc
    ELSE tuple_axes(tuple, coords, i + 1, axis_step(tuple, coords, i, acc))

\* Lines 183-236: whether the tuple's deltas are used, and their scaler.
tuple_scaler(tuple, coords) ==
    LET r == tuple_axes(tuple, coords, 1,
                        [skip |-> FALSE, applies |-> FALSE,
                         scaler |-> Num(1)])
    IN  [applies |-> ~r.skip /\ r.applies, scaler |-> r.scaler]

\* Lines 337-362.
infer_delta(px, tx, fx, pd, fd) ==
    IF Eq(px, fx)
    THEN IF Eq(pd, fd) THEN pd ELSE Num(0)
    ELSE IF Le(tx, RatMin(px, fx))
         THEN IF Lt(px, fx) THEN pd ELSE fd
    ELSE IF Ge(tx, RatMax(px, fx))
         THEN IF Gt(px, fx) THEN pd ELSE fd
    ELSE LET p == Div(Sub(tx, px), Sub(fx, px))
         IN  Add(Mul(Sub(Num(1), p), pd), Mul(p, fd))

AddDelta(slot, dx, dy) == <<Add(slot[1], dx), Add(slot[2], dy)>>

\* Lines 238-242: a tuple without point numbers adds delta k to slot k.
apply_all_points(pd, tuple, s) ==
    [i \in 1 .. Len(pd) |->
        IF i <= Len(tuple.deltas)
        THEN AddDelta(pd[i], Mul(Num(tuple.deltas[i][1]), s),
                      Mul(Num(tuple.deltas[i][2]), s))
        ELSE pd[i]]

\* Lines 246-252: <<delta index, point number>> of the tuple's points that
\* lie in the contour range.
points_in_range(tuple, r) ==
    SelectSeq([k \in 1 .. Len(tuple.points) |-> <<k, tuple.points[k]>>],
              LAMBDA e : r.start <= e[2] /\ e[2] < r.end)

\* Lines 282-310: the delta inferred for the unreferenced point number i.
inferred(o, tuple, pir, i) ==
    LET pos == Cardinality({q \in 1 .. Len(pir) : pir[q][2] < i})
        wrap == pos = 0 \/ pos = Len(pir)
        prec == IF wrap THEN pir[Len(pir)] ELSE pir[pos]
        foll == IF wrap THEN pir[1] ELSE pir[pos + 1]
        pp == o.points[prec[2] + 1]
        fp == o.points[foll[2] + 1]
        tp == o.points[i + 1]
    IN  <<infer_delta(pp.x, tp.x, fp.x, Num(tuple.deltas[prec[1]][1]),
                      Num(tuple.deltas[foll[1]][1])),
          infer_delta(pp.y, tp.y, fp.y, Num(tuple.deltas[prec[1]][2]),
                      Num(tuple.deltas[foll[1]][2]))>>

\* Lines 244-313 for one contour.
apply_contour(pd, o, tuple, s, r) ==
    LET pir == points_in_range(tuple, r)
    IN  IF Len(pir) = 0 THEN pd
        ELSE IF Len(pir) = 1
        THEN [i \in 1 .. Len(pd) |->
                 IF r.start <= i - 1 /\ i - 1 < r.end
                 THEN AddDelta(pd[i],
                               Mul(Num(tuple.deltas[pir[1][1]][1]), s),
                               Mul(Num(tuple.deltas[pir[1][1]][2]), s))
                 ELSE pd[i]]
        ELSE [i \in 1 .. Len(pd) |->
                 IF r.start <= i - 1 /\ i - 1 < r.end
                 THEN IF \E q \in 1 .. Len(pir) : pir[q][2] = i - 1
                      THEN LET q == CHOOSE q \in 1 .. Len(pir) :
                                        pir[q][2] = i - 1
                               d == tuple.deltas[pir[q][1]]
                           IN  AddDelta(pd[i], Mul(Num(d[1]), s),
                                        Mul(Num(d[2]), s))
                      ELSE LET d == inferred(o, tuple, pir, i - 1)
                           IN  AddDelta(pd[i], Mul(d[1], s), Mul(d[2], s))
                 ELSE pd[i]]

RECURSIVE apply_contours(_, _, _, _, _)
apply_contours(pd, o, tuple, s, j) ==
    IF j > Len(o.contours) THEN pd
    ELSE apply_contours(apply_contour(pd, o, tuple, s, o.contours[j]),
                        o, tuple, s, j + 1)

\* Lines 182-315: the accumulator after the tuples from tuple t on.
RECURSIVE apply_tuples(_, _, _, _, _)
apply_tuples(pd, o, tuples, coords, t) ==
    IF t > Len(tuples) THEN pd
    ELSE LET ts == tuple_scaler(tuples[t], coords)
             pd1 == IF ~ts.applies THEN pd
                    ELSE IF Len(tuples[t].points) = 0
                    THEN apply_all_points(pd, tuples[t], ts.scaler)
                    ELSE apply_contours(pd, o, tuples[t], ts.scaler, 1)
         IN  apply_tuples(pd1, o, tuples, coords, t + 1)

\* add_point_deltas without the phantom cut-off: the slots past the last
\* real point wrap around onto the first points.
add_point_deltas_wrapping(o, pd) ==
    [o EXCEPT !.points =
        [i \in 1 .. Len(o.points) |->
            LET j == i + Len(o.points)
                dx == IF j <= Len(pd) THEN Add(pd[i][1], pd[j][1])
                      ELSE pd[i][1]
                dy == IF j <= Len(pd) THEN Add(pd[i][2], pd[j][2])
                      ELSE pd[i][2]
            IN  [o.points[i] EXCEPT !.x = Add(@, dx), !.y = Add(@, dy)]]]

\* Lines 317-328: the phantom slots are dropped.
add_point_deltas(o, pd) ==
    [o EXCEPT !.points =
        [i \in 1 .. Len(o.points) |->
            [o.points[i] EXCEPT !.x = Add(@, pd[i][1]),
                                !.y = Add(@, pd[i][2])]]]

outline_apply_gvar(f, glyph_index, o, coords) ==
    IF OutOfRange(coords) THEN [err |-> "InvalidCoords", outline |-> o]
    ELSE IF ~f.gvar.present THEN [err |-> "MissingTable", outline |-> o]
    ELSE IF Len(coords) # f.gvar.axis_count
         THEN [err |-> "InvalidCoords", outline |-> o]
    ELSE IF glyph_index \notin DOMAIN f.gvar.glyph_variations
         THEN [err |-> "NoData", outline |-> o]
    ELSE LET zero == [i \in 1 .. Len(o.points) + 4 |-> <<Num(0), Num(0)>>]
             pd == apply_tuples(zero, o,
                                f.gvar.glyph_variations[glyph_index].tuples,
                                coords, 1)
             rb == rebuild(add_point_deltas(o, pd))
         IN  IF rb.err = "Ok" THEN rb
             ELSE [err |-> "MalformedOutline", outline |-> rb.outline]

----------------------------------------------------------------------------
(* advance_width                                                           *)

\* region_step with the region test ahead of the peak test: a coordinate
\* on the start or end of the region skips it even when it is the peak.
region_step_region_first(axis, c, acc) ==
    IF Eq(axis.peak, Num(0)) THEN acc
    ELSE IF Lt(c, axis.start) \/ Gt(c, axis.end)
         THEN [acc EXCEPT !.skip = TRUE]
    ELSE IF Eq(c, axis.start) \/ Eq(c, axis.end)
         THEN [acc EXCEPT !.skip = TRUE]
    ELSE IF Eq(axis.peak, c) THEN [acc EXCEPT !.applies = TRUE]
    ELSE [skip |-> FALSE, applies |-> TRUE,
          scaler |-> Mul(acc.scaler,
                         IF Lt(c, axis.peak)
                         THEN Div(Sub(c, axis.start),
                                  Sub(axis.peak, axis.start))
                         ELSE Div(Sub(axis.end, c),
                                  Sub(axis.end, axis.peak)))]

\* Lines 125-148: the body of the loop over the axes of a region.  skip is
\* set where the code takes `continue 'delta_data`.
region_step(axis, c, acc) ==
    IF Eq(axis.peak, Num(0)) THEN acc
    ELSE IF Eq(axis.peak, c) THEN [acc EXCEPT !.applies = TRUE]
    ELSE IF Lt(c, axis.start) \/ Gt(c, axis.end)
         THEN [acc EXCEPT !.skip = TRUE]
    ELSE IF Eq(c, axis.start) \/ Eq(c, axis.end)
         THEN [acc EXCEPT !.skip = TRUE]
    ELSE [skip |-> FALSE, applies |-> TRUE,
          scaler |-> Mul(acc.scaler,
                         IF Lt(c, axis.peak)
                         THEN Div(Sub(c, axis.start),
                                  Sub(axis.peak, axis.start))
                         ELSE Div(Sub(axis.end, c),
                                  Sub(axis.end, axis.peak)))]

\* Lines 124-149: coords zipped with the region's axes, from axis i on.
RECURSIVE region_axes(_, _, _, _)
region_axes(region, coords, i, acc) ==
    IF i > Len(coords) \/ i > Len(region.axes) \/ acc.skip THEN acc
    ELSE region_axes(region, coords, i + 1,
                     region_step(region.axes[i], coords[i], acc))

\* Lines 121-153: the weight of one region; applies is !all_ignored.
region_scaler(region, coords) ==
    LET r == region_axes(region, coords, 1,
                         [skip |-> FALSE, applies |-> FALSE,
                          scaler |-> Num(1)])
    IN  [applies |-> ~r.skip /\ r.applies, scaler |-> r.scaler]

\* Lines 115-154: the sum over the delta set from entry i on.
RECURSIVE total_delta(_, _, _, _, _)
total_delta(store, item, inner, coords, i) ==
    IF i > Len(item.delta_sets[inner + 1].data) THEN Num(0)
    ELSE LET rs == region_scaler(store.regions[item.region_indexes[i] + 1],
                                 coords)
             rest == total_delta(store, item, inner, coords, i + 1)
         IN  IF rs.applies
             THEN Add(Mul(rs.scaler, Num(item.delta_sets[inner + 1].data[i])),
                      rest)
             ELSE rest

\* Lines 92-103: <<outer, inner>>, or <<>> where `map_data.len() - 1`
\* underflows on an empty map and the indexing aborts.
delta_set_index(hv, glyph_index) ==
    IF hv.advance_map.present
    THEN LET md == hv.advance_map.map_data
         IN  IF Len(md) = 0 THEN <<>>
             ELSE IF glyph_index >= Len(md) THEN md[Len(md)]
             ELSE md[glyph_index + 1]
    ELSE <<0, glyph_index>>

advance_width(f, glyph_index, coords) ==
    IF OutOfRange(coords) THEN [err |-> "InvalidCoords", value |-> Num(0)]
    ELSE IF ~f.hvar.present THEN [err |-> "Ok", value |-> Num(0)]
    ELSE IF Len(coords) # f.hvar.item_variation_store.axis_count
         THEN [err |-> "InvalidCoords", value |-> Num(0)]
    ELSE
    LET store == f.hvar.item_variation_store
        idx == delta_set_index(f.hvar, glyph_index)
    IN  IF idx = <<>> THEN [err |-> "panic", value |-> Num(0)]
        ELSE IF idx[1] >= Len(store.item_data)
        THEN [err |-> "Ok", value |-> Num(0)]
        ELSE IF idx[2] >= Len(store.item_data[idx[1] + 1].delta_sets)
        THEN [err |-> "Ok", value |-> Num(0)]
        ELSE [err |-> "Ok",
              value |-> total_delta(store, store.item_data[idx[1] + 1],
                                    idx[2], coords, 1)]

----------------------------------------------------------------------------
(* ScaledGlyph::evaluate                                                   *)

\* Lines 71-74: the number of fvar axes, 0 without fvar.
FontAxisCount(f) == IF f.fvar.present THEN Len(f.fvar.axes) ELSE 0

\* f32::floor, ceil and round (half away from zero), as integers.
Floor(a) == a[1] \div a[2]
Ceil(a) == -((-a[1]) \div a[2])
Round(a) == IF a[1] >= 0 THEN (2 * a[1] + a[2]) \div (2 * a[2])
            ELSE -((2 * (-a[1]) + a[2]) \div (2 * a[2]))

\* `as u32` and `as i16` on an integral f32: saturating casts.
as_u32(n) == IF n < 0 THEN 0 ELSE n
as_i16(n) == IF n < -32768 THEN -32768 ELSE IF n > 32767 THEN 32767 ELSE n

\* Lines 180-202: the words written to the hasher.
unique_id(glyph_id, size, co, axis_count) ==
    <<glyph_id, size,
      IF co.present THEN co.v ELSE [i \in 1 .. axis_count |-> Num(0)]>>

\* gvar_error_map without the InvalidCoords arm.
gvar_error_map_ignore_invalid(err) ==
    IF err = "MalformedOutline" THEN "Malformed" ELSE "Ok"

\* Lines 110-114: the errors of outline_apply_gvar that end evaluate; "Ok"
\* where evaluate goes on.
gvar_error_map(err) ==
    IF err = "InvalidCoords" THEN "InvalidCoords"
    ELSE IF err = "MalformedOutline" THEN "Malformed"
    ELSE "Ok"

Failed(kind) == [err |-> kind]

\* Lines 117-177: pixel extents, the transform into the unit square and the
\* final rebuild (whose unwrap aborts on an error).
scale_outline(o, scaler, advance_w, uid) ==
    LET width_f == Mul(Sub(o.x_max, o.x_min), scaler)
        width_r == Ceil(width_f)
        scaler_hori == Div(Mul(Div(Num(width_r), width_f), scaler),
                           Num(width_r))
        one_side == Le(o.y_max, Num(0)) \/ Ge(o.y_min, Num(0))
        height_f == Mul(Sub(o.y_max, o.y_min), scaler)
        y_max_r == Ceil(Mul(o.y_max, scaler))
        y_min_r == Floor(Mul(o.y_min, scaler))
        height_r == y_max_r - y_min_r
        above_f == Mul(o.y_max, scaler)
        below_f == Mul(o.y_min, scaler)
        above_r == Ceil(above_f)
        below_r == Round(below_f)
        image_h == IF one_side THEN as_u32(height_r)
                   ELSE as_u32(above_r - below_r)
        scaler_above ==
            IF one_side
            THEN Div(Mul(Div(Num(height_r), height_f), scaler), Num(image_h))
            ELSE Div(Mul(Div(Num(above_r), above_f), scaler), Num(image_h))
        scaler_below ==
            IF one_side THEN scaler_above
            ELSE Div(Mul(Div(Num(below_r), below_f), scaler), Num(image_h))
        transform_x(x) == Mul(Sub(x, o.x_min), scaler_hori)
        transform_y(y) ==
            IF Gt(y, Num(0))
            THEN Sub(Num(1), Mul(Sub(y, o.y_min), scaler_above))
            ELSE Sub(Num(1), Mul(Sub(y, o.y_min), scaler_below))
        moved == [o EXCEPT !.points =
                     [i \in 1 .. Len(o.points) |->
                         [o.points[i] EXCEPT !.x = transform_x(@),
                                             !.y = transform_y(@)]]]
        rb == rebuild(moved)
    IN  IF rb.err # "Ok" THEN Failed("panic")
        ELSE [err |-> "Ok",
              width |-> as_u32(width_r),
              height |-> image_h,
              bearing_x |-> as_i16(Round(Mul(o.x_min, scaler))),
              bearing_y |-> as_i16(IF one_side THEN y_min_r ELSE below_r),
              advance_w |-> as_i16(Ceil(Add(advance_w,
                                            Sub(Num(width_r), width_f)))),
              outline |-> [present |-> TRUE, v |-> rb.outline],
              unique_id |-> uid]

\* Lines 43-177.  co is the optional coordinate vector, size an integer.
evaluate(f, co, coords_normalized, glyph_id, size) ==
    LET nz == IF co.present /\ ~coords_normalized
              THEN normalize_axis_coords(f, co.v)
              ELSE [err |-> "Ok", coords |-> IF co.present THEN co.v ELSE <<>>]
        coords == [present |-> co.present, v |-> nz.coords]
        uid == unique_id(glyph_id, size, coords, FontAxisCount(f))
        aw == IF co.present THEN advance_width(f, glyph_id, nz.coords)
              ELSE [err |-> "Ok", value |-> Num(0)]
        scaler == Rat(size, f.head.units_per_em)
        advance_w ==
            Mul(Add(Num(f.hmtx.hor_metric[glyph_id + 1].advance_width),
                    aw.value), scaler)
        base == f.glyf.outlines[glyph_id]
        gv == IF co.present
              THEN outline_apply_gvar(f, glyph_id, base, nz.coords)
              ELSE [err |-> "Ok", outline |-> base]
    IN  IF nz.err # "Ok" THEN Failed("InvalidCoords")
        ELSE IF glyph_id >= Len(f.hmtx.hor_metric) THEN Failed("Missing")
        ELSE IF aw.err = "panic" THEN Failed("panic")
        ELSE IF aw.err # "Ok" THEN Failed("InvalidCoords")
        ELSE IF glyph_id \notin DOMAIN f.glyf.outlines
        THEN [err |-> "Ok", width |-> 0, height |-> 0, bearing_x |-> 0,
              bearing_y |-> 0, advance_w |-> as_i16(Ceil(advance_w)),
              outline |-> None, unique_id |-> uid]
        ELSE IF gvar_error_map(gv.err) # "Ok"
        THEN Failed(gvar_error_map(gv.err))
        ELSE scale_outline(gv.outline, scaler, advance_w, uid)

----------------------------------------------------------------------------
(* Specification of the normalization calls.                               *)

AxisRecords ==
    [min_value : {Num(v) : v \in AxisVals},
     default_value : {Num(v) : v \in AxisVals},
     max_value : {Num(v) : v \in AxisVals}]

WghtAxis == [min_value |-> Num(1), default_value |-> Num(4),
             max_value |-> Num(10)]

\* One free axis, optionally followed by a second fixed axis.
FvarTables ==
    {None}
    \cup {[present |-> TRUE, axes |-> <<a>>] : a \in AxisRecords}
    \cup {[present |-> TRUE, axes |-> <<a, WghtAxis>>] : a \in AxisRecords}

\* The avar table carries one segment map per axis; the map of a second
\* axis is empty.
AvarTablesFor(fv) ==
    {None}
    \cup (IF ~fv.present THEN {}
          ELSE {[present |-> TRUE,
                 segment_maps |->
                     IF Len(fv.axes) = 1 THEN <<m>> ELSE <<m, <<>> >>] :
                m \in SegmentMaps})

\* A font without variation tables, glyphs or metrics.
EmptyFont ==
    [fvar |-> None, avar |-> None, gvar |-> None, hvar |-> None,
     head |-> [units_per_em |-> 8],
     maxp |-> [num_glyphs |-> 0],
     hhea |-> [number_of_h_metrics |-> 0],
     hmtx |-> [hor_metric |-> <<>>, left_side_bearings |-> <<>>],
     glyf |-> [outlines |-> <<>>]]

UserCoords == {Num(v) : v \in 0 .. MaxUser}

SecondCoords == {Num(4), Num(7)}

UserCoordVectors ==
    {<<>>} \cup {<<c>> : c \in UserCoords}
    \cup {<<c, d>> : c \in UserCoords, d \in SecondCoords}

InitNorm ==
    /\ \E fv \in FvarTables : \E av \in AvarTablesFor(fv) :
          font = [EmptyFont EXCEPT !.fvar = fv, !.avar = av]
    /\ pc = "idle"
    /\ call = <<>>
    /\ ret = <<>>

Normalize ==
    /\ pc = "idle"
    /\ \E cs \in UserCoordVectors :
          /\ call' = [coords |-> cs]
          /\ ret' = normalize_axis_coords(font, cs)
    /\ pc' = "normalize"
    /\ UNCHANGED font

NextNorm == Normalize

SpecNorm == InitNorm /\ [][NextNorm]_vars

----------------------------------------------------------------------------
(* Properties of normalization.                                            *)

ValidAxis(a) ==
    Le(a.min_value, a.default_value) /\ Le(a.default_value, a.max_value)

NormalizeDone == pc = "normalize" /\ ret.err = "Ok"

\* C2: for every axis with min <= default <= max, an input equal to the
\* default normalizes to 0, an input <= min to -1 and an input >= max to +1.
C2_NormalizationEndpoints ==
    NormalizeDone =>
        \A i \in 1 .. Len(call.coords) :
            LET a == font.fvar.axes[i]
                c == call.coords[i]
                out == ret.coords[i]
            IN  ValidAxis(a) =>
                    /\ (Eq(c, a.default_value) => out = Num(0))
                    /\ (Le(c, a.min_value) => out = Num(-1))
                    /\ (Ge(c, a.max_value) => out = Num(1))

StrictlyMonotonic(m) ==
    \A j \in 1 .. Len(m) - 1 :
        /\ Lt(m[j].from_coord, m[j + 1].from_coord)
        /\ Lt(m[j].to_coord, m[j + 1].to_coord)

\* C4: with a segment map of more than three entries, a normalized value
\* on a breakpoint maps to that breakpoint's output and a value strictly
\* between two breakpoints maps to the linear interpolation between them.
C4_AvarPiecewiseLinear ==
    (NormalizeDone /\ font.avar.present) =>
        \A i \in 1 .. Len(call.coords) :
            LET m == font.avar.segment_maps[i]
                lin == normalize_linear(font.fvar.axes[i], call.coords[i])
                out == ret.coords[i]
            IN  (Len(m) > 3 /\ StrictlyMonotonic(m) /\ ~lin.done) =>
                    /\ \A j \in 1 .. Len(m) :
                           Eq(lin.c, m[j].from_coord) => out = m[j].to_coord
                    /\ \A k \in 1 .. Len(m) - 1 :
                           (Lt(m[k].from_coord, lin.c)
                               /\ Lt(lin.c, m[k + 1].from_coord)) =>
                               out = Add(m[k].to_coord,
                                         Div(Mul(Sub(lin.c, m[k].from_coord),
                                                 Sub(m[k + 1].to_coord,
                                                     m[k].to_coord)),
                                             Sub(m[k + 1].from_coord,
                                                 m[k].from_coord)))

----------------------------------------------------------------------------
(* gvar acceptance (GvarTable::try_parse sanity checks, lines 263-317).     *)

\* The sanity checks without the loop over the point numbers (lines
\* 313-317): only the check of the last point number ahead of the deltas
\* (lines 263-267) is left, which lets num_packed_points + 4 through.
GvarAccepts_last_point_only(tuple, num_packed_points) ==
    /\ tuple.interm.present =>
           \A i \in 1 .. Len(tuple.peak) :
               LET p == tuple.peak[i]
                   st == tuple.interm.start[i]
                   e == tuple.interm.end[i]
               IN  ~(\/ Gt(st, e) \/ Lt(p, st) \/ Gt(p, e)
                     \/ Lt(st, Num(-1)) \/ Gt(st, Num(1))
                     \/ Lt(e, Num(-1)) \/ Gt(e, Num(1)))
    /\ \A i \in 1 .. Len(tuple.peak) :
           ~(Lt(tuple.peak[i], Num(-1)) \/ Gt(tuple.peak[i], Num(1)))
    /\ Len(tuple.points) > 0 =>
           tuple.points[Len(tuple.points)] <= num_packed_points + 4
    /\ Len(tuple.deltas) = IF Len(tuple.points) = 0
                           THEN num_packed_points + 4
                           ELSE Len(tuple.points)

GvarAccepts(tuple, num_packed_points) ==
    /\ tuple.interm.present =>
           \A i \in 1 .. Len(tuple.peak) :
               LET p == tuple.peak[i]
                   st == tuple.interm.start[i]
                   e == tuple.interm.end[i]
               IN  ~(\/ Gt(st, e) \/ Lt(p, st) \/ Gt(p, e)
                     \/ Lt(st, Num(-1)) \/ Gt(st, Num(1))
                     \/ Lt(e, Num(-1)) \/ Gt(e, Num(1)))
    /\ \A i \in 1 .. Len(tuple.peak) :
           ~(Lt(tuple.peak[i], Num(-1)) \/ Gt(tuple.peak[i], Num(1)))
    /\ \A k \in 1 .. Len(tuple.points) :
           tuple.points[k] < num_packed_points + 4
    /\ Len(tuple.deltas) = IF Len(tuple.points) = 0
                           THEN num_packed_points + 4
                           ELSE Len(tuple.points)

----------------------------------------------------------------------------
(* Specification of the outline_apply_gvar calls.                          *)

\* Largest magnitude of a delta substituted in a phantom slot.
MaxDelta == 2

Pt(x, y, ctl) == [x |-> Num(x), y |-> Num(y), control |-> ctl]

\* A glyph of two contours: points 0..3 and points 4..6.
GlyphOutline ==
    [points |-> <<Pt(0, 0, FALSE), Pt(2, 1, TRUE), Pt(4, 0, FALSE),
                  Pt(2, -4, FALSE),
                  Pt(1, 1, FALSE), Pt(3, 2, FALSE), Pt(1, 3, FALSE)>>,
     contours |-> <<[start |-> 0, end |-> 4], [start |-> 4, end |-> 7]>>,
     x_min |-> Num(0), x_max |-> Num(4), y_min |-> Num(-4), y_max |-> Num(3)]

NumPoints == Len(GlyphOutline.points)

\* Deltas by point number (real points 0..6, phantom points 7..10).
DeltaTable ==
    << <<2, -1>>, <<-2, 3>>, <<4, 1>>, <<1, 1>>, <<-3, 2>>, <<2, 2>>,
       <<0, -2>>, <<5, -5>>, <<-4, 4>>, <<3, 0>>, <<1, -3>> >>

\* The same delta for every point.
FlatDeltaTable == [p \in 1 .. NumPoints + 4 |-> <<2, -2>>]

\* Point-number lists: all points, one point, two points of a contour,
\* points of both contours, and lists that name phantom points.
PointLists == {<<>>, <<1>>, <<0, 2>>, <<0, 3, 5>>, <<1, 8>>, <<4, 6, 7, 10>>}

\* Normalized values used for peak, start and end.
RegionGrid == {Num(-1), Num(0), Rat(1, 2), Num(1)}

Axes == {1, 2}

AxisCount == Cardinality(Axes)

RegionVectors == [1 .. AxisCount -> RegionGrid]

Interms ==
    {[present |-> FALSE]}
    \cup [present : {TRUE}, start : RegionVectors, end : RegionVectors]

GvarTuple(peak, interm, points, table) ==
    [peak |-> peak, interm |-> interm, points |-> points,
     deltas |-> IF Len(points) = 0 THEN table
                ELSE [k \in 1 .. Len(points) |-> table[points[k] + 1]]]

\* Tuples that list point 0 twice, with two deltas: what the parser makes
\* of the packed point numbers 02 01 00 00.  Which of the two deltas the
\* binary search of the code finds for point 0 is left to the library.
RepeatedPointTuples ==
    {[peak |-> peak, interm |-> [present |-> FALSE], points |-> <<0, 0>>,
      deltas |-> << <<2, -1>>, <<4, 1>> >>] : peak \in RegionVectors}

GvarTuples ==
    {t \in {GvarTuple(peak, interm, pt[1], pt[2]) :
                peak \in RegionVectors, interm \in Interms,
                pt \in ({<<pl, DeltaTable>> : pl \in PointLists}
                        \cup {<< <<0, 2>>, FlatDeltaTable>>})}
            \cup RepeatedPointTuples :
        GvarAccepts(t, NumPoints)}

\* The fvar table of the two-axis fonts.
TwoAxisFvar == [present |-> TRUE, axes |-> [i \in 1 .. AxisCount |-> WghtAxis]]

\* A second tuple of the same glyph: all points, peak on the first axis.
SecondTuple ==
    GvarTuple(<<Num(1), Num(0)>>, [present |-> FALSE], <<>>,
              [p \in 1 .. NumPoints + 4 |-> <<1, 1>>])

\* Glyph 0 has variation data, glyph 1 has none.
GvarTables ==
    {None}
    \cup {[present |-> TRUE, axis_count |-> AxisCount,
           glyph_variations |-> (0 :> [tuples |-> <<t>>])] : t \in GvarTuples}
    \cup {[present |-> TRUE, axis_count |-> AxisCount,
           glyph_variations |-> (0 :> [tuples |-> <<t, SecondTuple>>])] :
          t \in {u \in GvarTuples : ~u.interm.present}}

CoordGrid == {Num(-1), Rat(-1, 2), Num(0), Rat(1, 2), Num(1)}

\* Vectors of the right length and range, and a few of a wrong length or
\* out of [-1, 1].
CoordVectors ==
    [1 .. AxisCount -> CoordGrid]
    \cup {<<>>, <<Num(0)>>, <<Rat(3, 2)>>, <<Num(0), Num(0), Num(0)>>,
          <<Num(0), Rat(3, 2)>>, <<Rat(-3, 2), Num(1)>>}

GvarCalls ==
    {<<0, c>> : c \in CoordVectors}
    \cup {<<1, c>> : c \in {<<>>, <<Num(0), Num(0)>>, <<Num(1), Rat(3, 2)>>}}

InitGvar ==
    /\ \E gv \in GvarTables :
          font = [EmptyFont EXCEPT !.fvar = TwoAxisFvar, !.gvar = gv]
    /\ pc = "idle"
    /\ call = <<>>
    /\ ret = <<>>

OutlineApplyGvar ==
    /\ pc = "idle"
    /\ \E c \in GvarCalls :
          /\ call' = [glyph_index |-> c[1], outline |-> GlyphOutline,
                      coords |-> c[2]]
          /\ ret' = outline_apply_gvar(font, c[1], GlyphOutline, c[2])
    /\ pc' = "apply_gvar"
    /\ UNCHANGED font

NextGvar == OutlineApplyGvar

SpecGvar == InitGvar /\ [][NextGvar]_vars

----------------------------------------------------------------------------
(* Properties of outline_apply_gvar.                                       *)

AllZero(coords) == \A i \in 1 .. Len(coords) : coords[i] = Num(0)

\* outline_apply_gvar ran on a glyph with variation data and valid coords.
GvarApplied ==
    /\ pc = "apply_gvar"
    /\ font.gvar.present
    /\ call.glyph_index \in DOMAIN font.gvar.glyph_variations
    /\ Len(call.coords) = font.gvar.axis_count
    /\ ~OutOfRange(call.coords)

CallTuples == font.gvar.glyph_variations[call.glyph_index].tuples

SamePoints(o1, o2) ==
    /\ Len(o1.points) = Len(o2.points)
    /\ \A i \in 1 .. Len(o1.points) :
           o1.points[i].x = o2.points[i].x /\ o1.points[i].y = o2.points[i].y

\* C1: with all normalized coordinates 0, outline_apply_gvar leaves every
\* point where it was and advance_width returns exactly 0, for every tuple
\* and region the parsers accept.
C1_DefaultCoordsIdentity ==
    /\ (GvarApplied /\ AllZero(call.coords)) =>
           ret.err = "Ok" /\ SamePoints(ret.outline, call.outline)
    /\ (pc = "advance_width" /\ AllZero(call.coords)
           /\ (font.hvar.present =>
                  Len(call.coords) = font.hvar.item_variation_store.axis_count)) =>
           ret.err = "Ok" /\ ret.value = Num(0)

\* The outline a single tuple yields when its deltas are used with scaler s.
WithScaler(o, tuple, s) ==
    LET zero == [i \in 1 .. Len(o.points) + 4 |-> <<Num(0), Num(0)>>]
    IN  add_point_deltas(o,
            IF Len(tuple.points) = 0 THEN apply_all_points(zero, tuple, s)
            ELSE apply_contours(zero, o, tuple, s, 1))

InfluencingAxes(tuple) ==
    {i \in 1 .. Len(tuple.peak) : tuple.peak[i] # Num(0)}

IsPhantomDelta(tuple, k, n) ==
    IF Len(tuple.points) = 0 THEN k > n ELSE tuple.points[k] >= n

ReplacePhantom(tuple, n, d) ==
    [tuple EXCEPT !.deltas =
        [k \in 1 .. Len(tuple.deltas) |->
            IF IsPhantomDelta(tuple, k, n) THEN d ELSE tuple.deltas[k]]]

ReplacePhantomFont(f, g, n, d) ==
    [f EXCEPT !.gvar.glyph_variations[g].tuples =
        [t \in 1 .. Len(@) |-> ReplacePhantom(@[t], n, d)]]

\* C6: outline_apply_gvar never changes the number of points, and the
\* resulting real points do not depend on the deltas carried for phantom
\* points, for all-points tuples and for explicit point lists alike.
C6_PhantomPointIsolation ==
    (pc = "apply_gvar") =>
        /\ Len(ret.outline.points) = Len(call.outline.points)
        /\ (/\ GvarApplied
            /\ \E t \in 1 .. Len(CallTuples) :
                   \E k \in 1 .. Len(CallTuples[t].deltas) :
                       IsPhantomDelta(CallTuples[t], k,
                                      Len(call.outline.points))) =>
               \A v \in -MaxDelta .. MaxDelta :
                   SamePoints(
                       ret.outline,
                       outline_apply_gvar(
                           ReplacePhantomFont(font, call.glyph_index,
                                              Len(call.outline.points),
                                              <<v, v + 1>>),
                           call.glyph_index, call.outline, call.coords
                       ).outline)

\* An applied tuple that lists phantom points next to real ones.
C6_Witness ==
    /\ GvarApplied
    /\ \E k \in 1 .. Len(CallTuples[1].deltas) :
           IsPhantomDelta(CallTuples[1], k, Len(call.outline.points))
    /\ Len(CallTuples[1].points) > 0
    /\ tuple_scaler(CallTuples[1], call.coords).applies
    /\ ~SamePoints(ret.outline, call.outline)

\* The axes of a tuple that scale it: peak # 0 and coordinate # peak.
ScalingAxes(tuple, coords) ==
    {i \in InfluencingAxes(tuple) : coords[i] # tuple.peak[i]}

\* coord is 0 or on the other side of 0 than peak (peak # 0).
ZeroOrOpposite(c, peak) ==
    Eq(c, Num(0)) \/ (Lt(c, Num(0)) # Lt(peak, Num(0)))

\* coord is on the side of peak and farther from 0 than peak.
BeyondPeak(c, peak) ==
    \/ Gt(peak, Num(0)) /\ Gt(c, peak)
    \/ Lt(peak, Num(0)) /\ Lt(c, peak)

\* The product of coord / peak over the scaling axes from axis i on.
RECURSIVE RatioProduct(_, _, _)
RatioProduct(tuple, coords, i) ==
    IF i > Len(coords) THEN Num(1)
    ELSE IF i \in ScalingAxes(tuple, coords)
    THEN Mul(Div(coords[i], tuple.peak[i]),
             RatioProduct(tuple, coords, i + 1))
    ELSE RatioProduct(tuple, coords, i + 1)

\* outline_apply_gvar ran on a glyph with one tuple that has no
\* intermediate region and at least one scaling axis.
NoIntermScaled ==
    /\ GvarApplied /\ Len(CallTuples) = 1
    /\ ~CallTuples[1].interm.present
    /\ ScalingAxes(CallTuples[1], call.coords) # {}

\* C21 as stated: for a tuple without intermediate region and the axes
\* with peak # 0 and coord # peak, the tuple is not applied exactly when on
\* one of them coord is 0 or has the opposite sign of peak; for every other
\* coord, nearer to or farther from 0 than peak, each such axis contributes
\* the factor coord / peak.
C21_ScalerWithoutIntermediate ==
    NoIntermScaled =>
        LET t == CallTuples[1]
        IN  IF \E i \in ScalingAxes(t, call.coords) :
                   ZeroOrOpposite(call.coords[i], t.peak[i])
            THEN SamePoints(ret.outline, call.outline)
            ELSE SamePoints(ret.outline,
                            WithScaler(call.outline, t,
                                       RatioProduct(t, call.coords, 1)))

\* C21 amended: the tuple is not applied exactly when on one of these axes
\* coord is 0, has the opposite sign of peak, or lies farther from 0 than
\* peak; otherwise (coord strictly between 0 and peak on each of them) each
\* axis contributes the factor coord / peak.
C21_ScalerWithoutIntermediateAmended ==
    NoIntermScaled =>
        LET t == CallTuples[1]
        IN  IF \E i \in ScalingAxes(t, call.coords) :
                   \/ ZeroOrOpposite(call.coords[i], t.peak[i])
                   \/ BeyondPeak(call.coords[i], t.peak[i])
            THEN SamePoints(ret.outline, call.outline)
            ELSE SamePoints(ret.outline,
                            WithScaler(call.outline, t,
                                       RatioProduct(t, call.coords, 1)))

\* A tuple with peak -1 on both axes evaluated at (-1/2, -1/2): the deltas
\* are applied with the factor 1/4 and the outline moves.
C21_Witness ==
    /\ NoIntermScaled
    /\ CallTuples[1].peak = <<Num(-1), Num(-1)>>
    /\ call.coords = <<Rat(-1, 2), Rat(-1, 2)>>
    /\ RatioProduct(CallTuples[1], call.coords, 1) = Rat(1, 4)
    /\ ~SamePoints(ret.outline, call.outline)

\* The point numbers of a tuple that lie in the contour range r.
Referenced(tuple, r) ==
    {tuple.points[k] : k \in {q \in 1 .. Len(tuple.points) :
                                 r.start <= tuple.points[q]
                                     /\ tuple.points[q] < r.end}}

\* The deltas the tuple lists for point number p.
DeltasOf(tuple, p) ==
    {tuple.deltas[k] : k \in {q \in 1 .. Len(tuple.points) :
                                 tuple.points[q] = p}}

SetMax(S) == CHOOSE m \in S : \A q \in S : q <= m
SetMin(S) == CHOOSE m \in S : \A q \in S : q >= m

\* The nearest referenced predecessor and follower of point i in the
\* cyclic order of the contour.
Predecessor(R, i) ==
    IF \E q \in R : q < i THEN SetMax({q \in R : q < i}) ELSE SetMax(R)
Follower(R, i) ==
    IF \E q \in R : q > i THEN SetMin({q \in R : q > i}) ELSE SetMin(R)

\* The inferred delta as the rule states it.
StatedInference(px, t, fx, pd, fd) ==
    IF Eq(px, fx) THEN (IF Eq(pd, fd) THEN pd ELSE Num(0))
    ELSE IF Le(t, RatMin(px, fx)) THEN (IF Lt(px, fx) THEN pd ELSE fd)
    ELSE IF Ge(t, RatMax(px, fx)) THEN (IF Gt(px, fx) THEN pd ELSE fd)
    ELSE Add(Mul(Div(Sub(fx, t), Sub(fx, px)), pd),
             Mul(Div(Sub(t, px), Sub(fx, px)), fd))

Scaled(d, s) == <<Mul(Num(d[1]), s), Mul(Num(d[2]), s)>>

\* The <<dx, dy>> point i of contour r may receive from the tuple with
\* scaler s (more than one where the tuple lists a point twice).
StatedDeltas(o, tuple, s, r, i) ==
    LET R == Referenced(tuple, r)
    IN  IF R = {} THEN {<<Num(0), Num(0)>>}
        ELSE IF Cardinality(R) = 1
        THEN {Scaled(d, s) : d \in DeltasOf(tuple, SetMax(R))}
        ELSE IF i \in R THEN {Scaled(d, s) : d \in DeltasOf(tuple, i)}
        ELSE LET pp == o.points[Predecessor(R, i) + 1]
                 fp == o.points[Follower(R, i) + 1]
                 tp == o.points[i + 1]
             IN  {<<Mul(StatedInference(pp.x, tp.x, fp.x,
                                        Num(pd[1]), Num(fd[1])), s),
                    Mul(StatedInference(pp.y, tp.y, fp.y,
                                        Num(pd[2]), Num(fd[2])), s)>> :
                     pd \in DeltasOf(tuple, Predecessor(R, i)),
                     fd \in DeltasOf(tuple, Follower(R, i))}

RatBetween(v, a, b) == Le(RatMin(a, b), v) /\ Le(v, RatMax(a, b))

\* outline_apply_gvar applied one tuple that has explicit point numbers.
PointsTupleApplied ==
    /\ GvarApplied /\ Len(CallTuples) = 1
    /\ Len(CallTuples[1].points) > 0
    /\ tuple_scaler(CallTuples[1], call.coords).applies

\* C23: for a tuple with explicit point numbers, a contour with none of
\* the tuple's points receives nothing; a contour with exactly one receives
\* that point's scaled delta on every point; otherwise a referenced point
\* receives its own scaled delta and an unreferenced point the delta
\* inferred, for x and y apart, from its nearest referenced predecessor
\* and follower in the cyclic order of the contour with the coordinates
\* before variation; an inferred delta lies between the two deltas.
C23_PerContourDeltas ==
    PointsTupleApplied =>
        LET t == CallTuples[1]
            s == tuple_scaler(t, call.coords).scaler
            o == call.outline
        IN  /\ \A j \in 1 .. Len(o.contours) :
                   \A i \in o.contours[j].start .. o.contours[j].end - 1 :
                       <<Sub(ret.outline.points[i + 1].x, o.points[i + 1].x),
                         Sub(ret.outline.points[i + 1].y, o.points[i + 1].y)>>
                           \in StatedDeltas(o, t, s, o.contours[j], i)
            /\ \A px, tx, fx \in {o.points[q].x : q \in 1 .. Len(o.points)} :
                   \A k1, k2 \in 1 .. Len(t.deltas) :
                       (Lt(RatMin(px, fx), tx) /\ Lt(tx, RatMax(px, fx))) =>
                           RatBetween(infer_delta(px, tx, fx,
                                                  Num(t.deltas[k1][1]),
                                                  Num(t.deltas[k2][1])),
                                      Num(t.deltas[k1][1]),
                                      Num(t.deltas[k2][1]))

----------------------------------------------------------------------------
(* hvar acceptance (ItemVariationStore::try_parse, lines 205-239).          *)

HvarAccepts(axis) ==
    /\ ~(\/ Lt(axis.start, Num(-1)) \/ Gt(axis.start, Num(1))
         \/ Lt(axis.peak, Num(-1)) \/ Gt(axis.peak, Num(1))
         \/ Lt(axis.end, Num(-1)) \/ Gt(axis.end, Num(1))
         \/ Gt(axis.start, axis.peak) \/ Lt(axis.end, axis.peak))
    /\ IF Eq(axis.peak, Num(0))
       THEN ~(Gt(axis.start, Num(0)) \/ Lt(axis.end, Num(0)))
       ELSE IF Lt(axis.peak, Num(0))
       THEN ~(Gt(axis.start, Num(0)) \/ Gt(axis.end, Num(0)))
       ELSE ~(Lt(axis.start, Num(0)) \/ Lt(axis.end, Num(0)))

----------------------------------------------------------------------------
(* Specification of the advance_width calls.                               *)

RegionAxes ==
    {a \in [start : RegionGrid, peak : RegionGrid, end : RegionGrid] :
        HvarAccepts(a)}

Regions == {[axes |-> ax] : ax \in [1 .. AxisCount -> RegionAxes]}

SecondRegion ==
    [axes |-> [i \in 1 .. AxisCount |->
                  IF i = 1
                  THEN [start |-> Num(0), peak |-> Num(1), end |-> Num(1)]
                  ELSE [start |-> Num(0), peak |-> Num(0), end |-> Num(0)]]]

\* One item-variation subtable with a delta set per glyph (glyphs 0, 1).
Store(regions) ==
    [axis_count |-> AxisCount, regions |-> regions,
     item_data |->
         <<[region_indexes |-> [i \in 1 .. Len(regions) |-> i - 1],
            delta_sets |->
                <<[data |-> [i \in 1 .. Len(regions) |-> 4 - i]],
                  [data |-> [i \in 1 .. Len(regions) |-> -2 * i]]>>]>>]

\* Absent, a map that swaps the two glyphs, a map whose outer index names a
\* missing subtable, and a map without entries.
AdvanceMaps ==
    {None,
     [present |-> TRUE, map_data |-> << <<0, 1>>, <<0, 0>> >>],
     [present |-> TRUE, map_data |-> << <<1, 0>> >>],
     [present |-> TRUE, map_data |-> <<>>]}

HvarTables ==
    {None}
    \cup {[present |-> TRUE, item_variation_store |-> Store(<<r>>),
           advance_map |-> am] : r \in Regions, am \in AdvanceMaps}
    \cup {[present |-> TRUE,
           item_variation_store |-> Store(<<r, SecondRegion>>),
           advance_map |-> None] : r \in Regions}

AdvanceCalls ==
    {<<g, c>> : g \in {0, 1}, c \in CoordVectors}
    \cup {<<2, c>> : c \in {<<>>, <<Num(1), Num(1)>>, <<Num(0), Num(0)>>}}

InitHvar ==
    /\ \E hv \in HvarTables :
          font = [EmptyFont EXCEPT !.fvar = TwoAxisFvar, !.hvar = hv]
    /\ pc = "idle"
    /\ call = <<>>
    /\ ret = <<>>

AdvanceWidth ==
    /\ pc = "idle"
    /\ \E c \in AdvanceCalls :
          /\ call' = [glyph_index |-> c[1], coords |-> c[2]]
          /\ ret' = advance_width(font, c[1], c[2])
    /\ pc' = "advance_width"
    /\ UNCHANGED font

NextHvar == AdvanceWidth

SpecHvar == InitHvar /\ [][NextHvar]_vars

\* C9: advance_width and outline_apply_gvar return InvalidCoords whenever
\* the coordinate vector has the wrong length or a coordinate outside
\* [-1, 1], and normalize_axis_coords whenever the length is wrong,
\* whatever tables the font has and whatever the glyph.
C9_CoordValidationFirst ==
    /\ (pc \in {"advance_width", "apply_gvar"}
           /\ (Len(call.coords) # FontAxisCount(font)
                  \/ OutOfRange(call.coords))) =>
           ret.err = "InvalidCoords"
    /\ (pc = "normalize" /\ Len(call.coords) # FontAxisCount(font)) =>
           ret.err = "InvalidCoords"

\* C11: for every hvar table the parser accepts (an advance map without
\* entries included), every glyph id and every valid coordinate vector,
\* advance_width returns Ok, and a delta of exactly 0 when the outer index
\* is >= the number of subtables or the inner index >= the number of delta
\* sets of the subtable.
C11_HvarIndexTotal ==
    (pc = "advance_width" /\ font.hvar.present
        /\ Len(call.coords) = font.hvar.item_variation_store.axis_count
        /\ ~OutOfRange(call.coords)) =>
        LET store == font.hvar.item_variation_store
            idx == delta_set_index(font.hvar, call.glyph_index)
        IN  /\ ret.err = "Ok"
            /\ (idx[1] >= Len(store.item_data)
                   \/ idx[2] >= Len(store.item_data[idx[1] + 1].delta_sets))
                  => Eq(ret.value, Num(0))


\* The gvar tuple with the peak and the intermediate (start, end) of an
\* hvar region.
RegionTuple(region) ==
    GvarTuple([i \in 1 .. Len(region.axes) |-> region.axes[i].peak],
              [present |-> TRUE,
               start |-> [i \in 1 .. Len(region.axes) |-> region.axes[i].start],
               end |-> [i \in 1 .. Len(region.axes) |-> region.axes[i].end]],
              <<>>, DeltaTable)

\* The sum advance_width would return with the scaler of
\* outline_apply_gvar as the weight of each region, from entry i on.
RECURSIVE TupleWeightedDelta(_, _, _, _, _)
TupleWeightedDelta(store, item, inner, coords, i) ==
    IF i > Len(item.delta_sets[inner + 1].data) THEN Num(0)
    ELSE LET ts == tuple_scaler(
                       RegionTuple(store.regions[item.region_indexes[i] + 1]),
                       coords)
             rest == TupleWeightedDelta(store, item, inner, coords, i + 1)
         IN  IF ts.applies
             THEN Add(Mul(ts.scaler, Num(item.delta_sets[inner + 1].data[i])),
                      rest)
             ELSE rest

\* advance_width summed the deltas of a delta set: hvar present, valid
\* coordinates and the indices of the glyph inside the store.
AdvanceSummed ==
    /\ pc = "advance_width" /\ font.hvar.present /\ ret.err = "Ok"
    /\ Len(call.coords) = font.hvar.item_variation_store.axis_count
    /\ ~OutOfRange(call.coords)
    /\ LET store == font.hvar.item_variation_store
           idx == delta_set_index(font.hvar, call.glyph_index)
       IN  /\ idx # <<>>
           /\ idx[1] < Len(store.item_data)
           /\ idx[2] < Len(store.item_data[idx[1] + 1].delta_sets)

\* C22: for every region whose axes both parsers accept and every
\* coordinate vector in [-1, 1], the weight advance_width gives the region
\* is the scaler outline_apply_gvar gives the tuple with the same peak and
\* the same intermediate (start, end), and the region is skipped exactly
\* when that tuple is skipped; so advance_width returns the sum of the
\* deltas weighted by the tuples' scalers.
C22_HvarGvarSameScaler ==
    AdvanceSummed =>
        LET store == font.hvar.item_variation_store
            idx == delta_set_index(font.hvar, call.glyph_index)
        IN  /\ \A k \in 1 .. Len(store.regions) :
                   GvarAccepts(RegionTuple(store.regions[k]), NumPoints) =>
                       region_scaler(store.regions[k], call.coords)
                           = tuple_scaler(RegionTuple(store.regions[k]),
                                          call.coords)
            /\ (\A k \in 1 .. Len(store.regions) :
                    GvarAccepts(RegionTuple(store.regions[k]), NumPoints)) =>
                   ret.value
                       = TupleWeightedDelta(store,
                                            store.item_data[idx[1] + 1],
                                            idx[2], call.coords, 1)

\* A region (0, 1, 1) on the first axis evaluated at 1/2: it is weighted
\* by 1/2 and the advance changes.
C22_Witness ==
    /\ AdvanceSummed
    /\ LET r == font.hvar.item_variation_store.regions[1]
       IN  /\ GvarAccepts(RegionTuple(r), NumPoints)
           /\ r.axes[1] = [start |-> Num(0), peak |-> Num(1), end |-> Num(1)]
           /\ call.coords[1] = Rat(1, 2)
           /\ region_scaler(r, call.coords).applies
           /\ tuple_scaler(RegionTuple(r), call.coords).applies
    /\ ret.value # Num(0)

----------------------------------------------------------------------------
(* Specification of the ScaledGlyph::evaluate calls.                       *)

MaxSize == 3

\* Advance widths of the glyphs, in design units, by glyph id.
EvalAdvances == <<10, 12, 14>>

EvalNumGlyphs == Len(EvalAdvances)

\* HmtxTable::try_parse: number_of_h_metrics full entries, then the
\* left side bearings of the remaining glyphs.
HmtxTable(number_of_h_metrics) ==
    [hor_metric |->
         [g \in 1 .. number_of_h_metrics |->
             [advance_width |-> EvalAdvances[g], left_side_bearing |-> 1]],
     left_side_bearings |->
         [g \in 1 .. EvalNumGlyphs - number_of_h_metrics |-> 1]]

\* One contour of four points (one of them a control point), moved by
\* (dx, dy), with its tight bounding box.
EvalOutline(dx, dy) ==
    rebuild([points |-> <<Pt(dx, dy, FALSE), Pt(4 + dx, dy, FALSE),
                          Pt(3 + dx, 2 + dy, TRUE), Pt(2 + dx, 3 + dy, FALSE)>>,
             contours |-> <<[start |-> 0, end |-> 4]>>,
             x_min |-> Num(0), x_max |-> Num(0),
             y_min |-> Num(0), y_max |-> Num(0)]).outline

\* Horizontal and vertical positions of glyph 0: above, on, across and
\* below the baseline.
EvalShiftsX == {-1, 0, 2}
EvalShiftsY == {-5, -3, -2, -1, 0, 1}

\* Glyph 0 has an outline and variation data, glyph 1 has no outline,
\* glyph 2 has an outline and no variation data.
GlyfTables ==
    {[outlines |-> (0 :> EvalOutline(dx, dy)) @@ (2 :> EvalOutline(1, -1))] :
        dx \in EvalShiftsX, dy \in EvalShiftsY}

EvalTuple ==
    GvarTuple(<<Num(1), Num(0)>>, [present |-> FALSE], <<>>,
              << <<2, 0>>, <<0, 2>>, <<-1, 1>>, <<1, -2>>,
                 <<0, 0>>, <<3, 0>>, <<0, 0>>, <<0, 0>> >>)

EvalGvarTables ==
    {None,
     [present |-> TRUE, axis_count |-> AxisCount,
      glyph_variations |-> (0 :> [tuples |-> <<EvalTuple>>])]}

EvalHvarTables ==
    {None,
     [present |-> TRUE, item_variation_store |-> Store(<<SecondRegion>>),
      advance_map |-> None]}

EvalFonts ==
    {[EmptyFont EXCEPT !.fvar = TwoAxisFvar, !.gvar = gv, !.hvar = hv,
                       !.head = [units_per_em |-> upem],
                       !.maxp = [num_glyphs |-> EvalNumGlyphs],
                       !.hhea = [number_of_h_metrics |-> n],
                       !.hmtx = HmtxTable(n), !.glyf = gl] :
        gv \in EvalGvarTables, hv \in EvalHvarTables, upem \in {4, 8},
        n \in 1 .. EvalNumGlyphs, gl \in GlyfTables}

Some(v) == [present |-> TRUE, v |-> v]

\* <<coords, coords_normalized>>: no coordinates; normalized vectors (the
\* default, a peak, a wrong length, a value out of range); user-space
\* vectors of the right and of a wrong length.
EvalCoords ==
    {<<None, TRUE>>,
     <<Some(<<Num(0), Num(0)>>), TRUE>>,
     <<Some(<<Num(1), Num(0)>>), TRUE>>,
     <<Some(<<Rat(1, 2), Num(-1)>>), TRUE>>,
     <<Some(<<Num(1)>>), TRUE>>,
     <<Some(<<Rat(3, 2), Num(0)>>), TRUE>>,
     <<Some(<<Num(7), Num(4)>>), FALSE>>,
     <<Some(<<Num(7)>>), FALSE>>}

InitEval ==
    /\ font \in EvalFonts
    /\ pc = "idle"
    /\ call = <<>>
    /\ ret = <<>>

Evaluate ==
    /\ pc = "idle"
    /\ \E co \in EvalCoords, g \in 0 .. EvalNumGlyphs, size \in 1 .. MaxSize :
          /\ call' = [coords |-> co[1], coords_normalized |-> co[2],
                      glyph_id |-> g, size |-> size]
          /\ ret' = evaluate(font, co[1], co[2], g, size)
    /\ pc' = "evaluate"
    /\ UNCHANGED font

NextEval == Evaluate

SpecEval == InitEval /\ [][NextEval]_vars

\* The coordinates evaluate works with after its normalization step.
EvalNormalized ==
    IF call.coords.present /\ ~call.coords_normalized
    THEN normalize_axis_coords(font, call.coords.v)
    ELSE [err |-> "Ok",
          coords |-> IF call.coords.present THEN call.coords.v ELSE <<>>]

\* The result of the outline_apply_gvar call evaluate makes.
EvalGvar ==
    outline_apply_gvar(font, call.glyph_id,
                       font.glyf.outlines[call.glyph_id],
                       EvalNormalized.coords)

\* evaluate reached its outline_apply_gvar call.
EvalGvarCalled ==
    /\ pc = "evaluate"
    /\ call.coords.present
    /\ EvalNormalized.err = "Ok"
    /\ call.glyph_id < Len(font.hmtx.hor_metric)
    /\ advance_width(font, call.glyph_id, EvalNormalized.coords).err = "Ok"
    /\ call.glyph_id \in DOMAIN font.glyf.outlines

\* The design-space outline that evaluate scaled.
EvalBase ==
    IF call.coords.present /\ EvalGvar.err = "Ok" THEN EvalGvar.outline
    ELSE font.glyf.outlines[call.glyph_id]

InBox(o) ==
    /\ Gt(o.x_max, o.x_min) /\ Gt(o.y_max, o.y_min)
    /\ \A i \in 1 .. Len(o.points) :
          /\ Le(o.x_min, o.points[i].x) /\ Le(o.points[i].x, o.x_max)
          /\ Le(o.y_min, o.points[i].y) /\ Le(o.points[i].y, o.y_max)

InUnitSquare(p) ==
    /\ Le(Num(0), p.x) /\ Le(p.x, Num(1))
    /\ Le(Num(0), p.y) /\ Le(p.y, Num(1))

\* C7: for a glyph whose points lie inside its bounding box (x_max > x_min,
\* y_max > y_min) and a size > 0, every point of the outline returned by
\* evaluate has 0 <= x <= 1 and 0 <= y <= 1, and a larger design-space y
\* gives a smaller output y, on one side of the baseline and across it.
C7_UnitSquareOutput ==
    (pc = "evaluate" /\ ret.err = "Ok" /\ ret.outline.present
        /\ InBox(EvalBase) /\ call.size > 0) =>
        LET b == EvalBase.points
            o == ret.outline.v.points
        IN  /\ \A i \in 1 .. Len(o) : InUnitSquare(o[i])
            /\ \A i, j \in 1 .. Len(o) :
                  Gt(b[i].y, b[j].y) => Lt(o[i].y, o[j].y)

\* The advance of the hmtx entry of glyph g, the last full entry for a
\* glyph of the tail.
BaseAdvance(g) ==
    LET n == Len(font.hmtx.hor_metric)
    IN  font.hmtx.hor_metric[IF g < n THEN g + 1 ELSE n].advance_width

\* C8: for number_of_h_metrics <= g < num_glyphs evaluate does not fail and
\* uses the advance of the last full metric entry as the base advance; for
\* g < number_of_h_metrics it uses the advance of entry g.
C8_TailGlyphBaseAdvance ==
    (pc = "evaluate" /\ ~call.coords.present
        /\ call.glyph_id < font.maxp.num_glyphs) =>
        /\ ret.err = "Ok"
        /\ ~ret.outline.present =>
              ret.advance_w =
                  as_i16(Ceil(Mul(Num(BaseAdvance(call.glyph_id)),
                                  Rat(call.size, font.head.units_per_em))))

\* The result of the same call without coordinates.
EvalUnvaried ==
    evaluate(font, None, call.coords_normalized, call.glyph_id, call.size)

----------------------------------------------------------------------------
(* Font::from_bytes: TTC header, table directory and table lookup.  A      *)
(* buffer is a sequence of bytes; offset o of the code is element o + 1.   *)

tag(b) == b[1] * 16777216 + b[2] * 65536 + b[3] * 256 + b[4]

TagTtcf == <<116, 116, 99, 102>>
TagOtto == <<79, 84, 84, 79>>
TagCmap == <<99, 109, 97, 112>>

\* u16::from_be_bytes and u32::from_be_bytes of bytes[offset ..].
be_u16(bytes, offset) == bytes[offset + 1] * 256 + bytes[offset + 2]
be_u32(bytes, offset) == tag(SubSeq(bytes, offset + 1, offset + 4))

Error(kind, source) == [ok |-> FALSE, kind |-> kind, source |-> source]

\* A slice or index out of range: the call aborts.
Abort == [ok |-> FALSE, kind |-> "panic", source |-> "panic"]

\* TTCHeader::try_parse with the length test ahead of the tag read.
TTCHeader_try_parse_len_first(bytes) ==
    IF Len(bytes) < 12 THEN Error("Truncated", "TTCHeader")
    ELSE IF tag(TagTtcf) # be_u32(bytes, 0)
    THEN Error("UnexpectedTag", "TTCHeader")
    ELSE LET major_version == be_u16(bytes, 4)
             num_fonts == be_u32(bytes, 8)
             table_directory_offsets_end == 12 + num_fonts * 4
         IN  IF Len(bytes) < table_directory_offsets_end
             THEN Error("Truncated", "TTCHeader")
             ELSE IF major_version = 2
                     /\ Len(bytes) < table_directory_offsets_end + 12
             THEN Error("Truncated", "TTCHeader")
             ELSE [ok |-> TRUE, major_version |-> major_version,
                   num_fonts |-> num_fonts]

\* ttc_header.rs lines 21-104.  bytes[0..4] aborts on a shorter buffer.
TTCHeader_try_parse(bytes) ==
    IF Len(bytes) < 4 THEN Abort
    ELSE IF tag(TagTtcf) # be_u32(bytes, 0)
    THEN Error("UnexpectedTag", "TTCHeader")
    ELSE IF Len(bytes) < 12 THEN Error("Truncated", "TTCHeader")
    ELSE LET major_version == be_u16(bytes, 4)
             num_fonts == be_u32(bytes, 8)
             table_directory_offsets_end == 12 + num_fonts * 4
         IN  IF Len(bytes) < table_directory_offsets_end
             THEN Error("Truncated", "TTCHeader")
             ELSE IF major_version = 2
                     /\ Len(bytes) < table_directory_offsets_end + 12
             THEN Error("Truncated", "TTCHeader")
             ELSE [ok |-> TRUE, major_version |-> major_version,
                   num_fonts |-> num_fonts]

\* table_directory.rs lines 81-112.
TableRecord_try_parse(bytes, base_offset) ==
    IF Len(bytes) < base_offset + 16 THEN Error("Truncated", "TableRecord")
    ELSE [ok |-> TRUE,
          table_tag |-> be_u32(bytes, base_offset),
          checksum |-> be_u32(bytes, base_offset + 4),
          offset |-> be_u32(bytes, base_offset + 8),
          length |-> be_u32(bytes, base_offset + 12)]

\* Lines 56-61: the records from table_i on; the first error ends the loop.
RECURSIVE table_records(_, _, _, _)
table_records(bytes, base_offset, num_tables, table_i) ==
    IF table_i >= num_tables THEN [ok |-> TRUE, records |-> <<>>]
    ELSE LET r == TableRecord_try_parse(bytes, base_offset + 12 + table_i * 16)
             rest == table_records(bytes, base_offset, num_tables, table_i + 1)
         IN  IF ~r.ok THEN r
             ELSE IF ~rest.ok THEN rest
             ELSE [ok |-> TRUE, records |-> <<r>> \o rest.records]

\* table_directory.rs lines 13-67.
TableDirectory_try_parse(bytes, base_offset) ==
    IF Len(bytes) < base_offset + 12 THEN Error("Truncated", "TableDirectory")
    ELSE LET sfnt_version == be_u32(bytes, base_offset)
             num_tables == be_u16(bytes, base_offset + 4)
         IN  IF sfnt_version = tag(TagOtto)
             THEN Error("CFFNotSupported", "TableDirectory")
             ELSE IF sfnt_version # 65536
             THEN Error("InvalidSfntVersion", "TableDirectory")
             ELSE IF base_offset + 12 + num_tables * 16 > Len(bytes)
             THEN Error("Truncated", "TableDirectory")
             ELSE LET rs == table_records(bytes, base_offset, num_tables, 0)
                  IN  IF ~rs.ok THEN rs
                      ELSE [ok |-> TRUE, sfnt_version |-> sfnt_version,
                            table_records |-> rs.records]

\* font.rs lines 51-65: the index of the last record with the tag, 0-based;
\* -1 for None.
table_index(records, t) ==
    LET hits == {i \in 1 .. Len(records) : records[i].table_tag = t}
    IN  IF hits = {} THEN -1
        ELSE (CHOOSE i \in hits : \A j \in hits : j <= i) - 1

\* font.rs lines 20-89: from_bytes up to the cmap table.  The buffers drawn
\* below hold no cmap table that lies inside the buffer, so the tables
\* after the lookup are not reached; "CmapTable" stands for the call of
\* CmapTable::try_parse.
from_bytes(bytes) ==
    LET ttc == TTCHeader_try_parse(bytes)
        td == TableDirectory_try_parse(bytes, 0)
        cmap_table_index == table_index(td.table_records, tag(TagCmap))
        table_record == td.table_records[cmap_table_index + 1]
    IN  IF ttc = Abort THEN Abort
        ELSE IF ~(~ttc.ok /\ ttc.kind = "UnexpectedTag")
        THEN Error("CollectionNotSupported", "FontData")
        ELSE IF ~td.ok THEN td
        ELSE IF cmap_table_index = -1 THEN Error("MissingTable", "CmapTable")
        ELSE IF table_record.offset + table_record.length > Len(bytes)
        THEN Error("Truncated", "CmapTable")
        ELSE [ok |-> FALSE, kind |-> "CmapTable", source |-> "CmapTable"]

----------------------------------------------------------------------------
(* Specification of the Font::from_bytes calls.                            *)

MaxTables == 2

Zeros(n) == [i \in 1 .. n |-> 0]

\* Complete TTC headers: version 1 or 2, num_fonts offsets, and the DSIG
\* fields of version 2.
TtcBuffers ==
    {TagTtcf \o <<0, major, 0, 0>> \o <<0, 0, 0, n>> \o Zeros(4 * n)
         \o Zeros(dsig) :
        major \in {1, 2}, n \in {0, 1}, dsig \in {0, 12}}

\* Table records: a cmap table or an unknown table, stored beyond the end
\* of every buffer drawn.
RecordBytes == {t \o Zeros(4) \o <<0, 0, 1, 0>> \o <<0, 0, 0, 8>> :
                    t \in {TagCmap, <<122, 122, 122, 122>>}}

RECURSIVE RecordLists(_)
RecordLists(n) ==
    IF n = 0 THEN {<<>>}
    ELSE {r \o rest : r \in RecordBytes, rest \in RecordLists(n - 1)}

\* Font files: sfnt version, numTables, the three search fields, and as
\* many records as announced, or one less.
SfntFiles(n) ==
    {v \o <<0, n>> \o Zeros(6) \o rs :
        v \in {TagOtto, <<0, 1, 0, 0>>, <<116, 114, 117, 101>>},
        rs \in UNION {RecordLists(k) : k \in {n, n - 1} \cap (0 .. MaxTables)}}

SfntBuffers == UNION {SfntFiles(n) : n \in 0 .. MaxTables}

Prefixes(b) == {SubSeq(b, 1, n) : n \in 0 .. Len(b)}

\* Every buffer above and every truncation of it, the empty buffer included.
FontBuffers == UNION {Prefixes(b) : b \in TtcBuffers \cup SfntBuffers}

InitFont ==
    /\ font = EmptyFont
    /\ pc = "idle"
    /\ call = <<>>
    /\ ret = <<>>

FromBytes ==
    /\ pc = "idle"
    /\ \E bytes \in FontBuffers :
          /\ call' = [bytes |-> bytes]
          /\ ret' = from_bytes(bytes)
    /\ pc' = "from_bytes"
    /\ UNCHANGED font

NextFont == FromBytes

SpecFont == InitFont /\ [][NextFont]_vars

StartsWith(bytes, t) == Len(bytes) >= 4 /\ SubSeq(bytes, 1, 4) = t

\* C12: for every buffer whose first four bytes are "OTTO", a buffer of
\* only 8 bytes included, from_bytes fails with kind CFFNotSupported and
\* source TableDirectory.
C12_CffRejection ==
    (pc = "from_bytes" /\ StartsWith(call.bytes, TagOtto)) =>
        /\ ~ret.ok
        /\ ret.kind = "CFFNotSupported"
        /\ ret.source = "TableDirectory"

\* C13: for every buffer of at least 4 bytes that starts with "ttcf", with
\* the rest of the TTC header complete or truncated, from_bytes fails with
\* kind CollectionNotSupported and source FontData (the table directory is
\* not parsed); a buffer that does not start with "ttcf" is never reported
\* as CollectionNotSupported.
C13_CollectionRejection ==
    pc = "from_bytes" =>
        /\ StartsWith(call.bytes, TagTtcf) =>
              ret = Error("CollectionNotSupported", "FontData")
        /\ ~StartsWith(call.bytes, TagTtcf) =>
              ret.kind # "CollectionNotSupported"

\* A 4-byte "ttcf" buffer, a truncated header and a complete version 2
\* header were rejected as collections, and a font file was not.
C13_Witness ==
    /\ pc = "from_bytes"
    /\ \/ call.bytes = TagTtcf
       \/ StartsWith(call.bytes, TagTtcf) /\ Len(call.bytes) = 28
    /\ ret.kind = "CollectionNotSupported"

\* C14: for every buffer shorter than 4 bytes, the empty buffer included,
\* from_bytes returns an error value of kind Truncated and reads no byte at
\* an index >= the buffer length.
C14_ShortInputSafety ==
    (pc = "from_bytes" /\ Len(call.bytes) < 4) =>
        /\ ~ret.ok
        /\ ret.kind = "Truncated"

----------------------------------------------------------------------------
(* GlyfTable::try_parse                                                    *)

\* Bit tests of SimpleFlags (glyf_table.rs lines 140-164).
Bit(b, mask) == (b \div mask) % 2 = 1
on_curve_point(flag) == Bit(flag, 1)
x_short_vector(flag) == Bit(flag, 2)
y_short_vector(flag) == Bit(flag, 4)
repeat_flag(flag) == Bit(flag, 8)
x_is_same_or_positive_x_short_vector(flag) == Bit(flag, 16)
y_is_same_or_positive_y_short_vector(flag) == Bit(flag, 32)

\* i16::from_be_bytes of bytes[offset ..].
read_i16(bytes, offset) ==
    LET u == be_u16(bytes, offset)
    IN  IF u >= 32768 THEN u - 65536 ELSE u

\* An i16 sum: with overflow checks (a debug build) an overflow aborts,
\* without them it wraps.
add_i16(a, b, overflow_checks) ==
    LET s == a + b
    IN  IF s >= -32768 /\ s <= 32767 THEN [ok |-> TRUE, v |-> s]
        ELSE IF overflow_checks THEN Abort
        ELSE [ok |-> TRUE, v |-> ((s + 32768) % 65536) - 32768]

GlyfError(kind) == Error(kind, "GlyfTable")

\* Lines 245-272: the flags array.  `bytes[flag_offset] + 1` is a u8 sum:
\* on a count byte of 255 it aborts with overflow checks and is 0 without.
RECURSIVE read_flags(_, _, _, _, _)
read_flags(bytes, flags, flag_offset, number_of_points, overflow_checks) ==
    IF Len(flags) >= number_of_points
    THEN [ok |-> TRUE, flags |-> flags, flag_offset |-> flag_offset]
    ELSE IF flag_offset >= Len(bytes) THEN GlyfError("Truncated")
    ELSE LET flag == bytes[flag_offset + 1]
         IN  IF ~repeat_flag(flag)
             THEN read_flags(bytes, Append(flags, flag), flag_offset + 1,
                             number_of_points, overflow_checks)
             ELSE IF flag_offset + 1 >= Len(bytes)
             THEN GlyfError("Truncated")
             ELSE IF bytes[flag_offset + 2] = 255 /\ overflow_checks
             THEN Abort
             ELSE LET flag_count == (bytes[flag_offset + 2] + 1) % 256
                  IN  read_flags(bytes,
                                 flags \o [n \in 1 .. flag_count |-> flag],
                                 flag_offset + 2, number_of_points,
                                 overflow_checks)

\* Lines 278-315 (x) and 320-357 (y): the coordinates from flag i on.
\* short and same are the two bit tests of the axis.
RECURSIVE read_coordinates(_, _, _, _, _, _, _, _)
read_coordinates(bytes, flags, i, coordinate_offset, previous, acc, axis, overflow_checks) ==
    IF i > Len(flags)
    THEN [ok |-> TRUE, coordinates |-> acc,
          coordinate_offset |-> coordinate_offset]
    ELSE LET short == IF axis = "x" THEN x_short_vector(flags[i])
                      ELSE y_short_vector(flags[i])
             same == IF axis = "x"
                     THEN x_is_same_or_positive_x_short_vector(flags[i])
                     ELSE y_is_same_or_positive_y_short_vector(flags[i])
         IN  IF short
             THEN IF coordinate_offset >= Len(bytes)
                  THEN GlyfError("Truncated")
                  ELSE LET d == IF same THEN bytes[coordinate_offset + 1]
                                ELSE -bytes[coordinate_offset + 1]
                           v == add_i16(previous, d, overflow_checks)
                       IN  IF ~v.ok THEN v
                           ELSE read_coordinates(bytes, flags, i + 1,
                                                 coordinate_offset + 1, v.v,
                                                 Append(acc, v.v), axis,
                                                 overflow_checks)
             ELSE IF same
             THEN read_coordinates(bytes, flags, i + 1, coordinate_offset,
                                   previous, Append(acc, previous), axis,
                                   overflow_checks)
             ELSE IF coordinate_offset + 2 > Len(bytes)
             THEN GlyfError("Truncated")
             ELSE LET v == add_i16(previous,
                                   read_i16(bytes, coordinate_offset),
                                   overflow_checks)
                  IN  IF ~v.ok THEN v
                      ELSE read_coordinates(bytes, flags, i + 1,
                                            coordinate_offset + 2, v.v,
                                            Append(acc, v.v), axis,
                                            overflow_checks)

OutlinePoint(x, y, control) == [x |-> x, y |-> y, control |-> control]

\* Lines 379-403: the points of a contour from decoded point k on (k is
\* 0-based); an index beyond the decoded arrays aborts.
RECURSIVE contour_points(_, _, _, _, _, _)
contour_points(flags, x_coordinates, y_coordinates, range_start, range_end, k) ==
    IF k >= range_end THEN [ok |-> TRUE, points |-> <<>>]
    ELSE IF k >= Len(flags) THEN Abort
    ELSE LET rest == contour_points(flags, x_coordinates, y_coordinates,
                                    range_start, range_end, k + 1)
             here ==
                 IF k > range_start /\ k < range_end - 1
                    /\ ~on_curve_point(flags[k + 1])
                 THEN IF k + 1 >= Len(flags) THEN <<>>
                      ELSE IF ~on_curve_point(flags[k + 2])
                      THEN <<OutlinePoint(Num(x_coordinates[k + 1]),
                                          Num(y_coordinates[k + 1]), TRUE),
                             OutlinePoint(
                                 Div(Add(Num(x_coordinates[k + 1]),
                                         Num(x_coordinates[k + 2])), Num(2)),
                                 Div(Add(Num(y_coordinates[k + 1]),
                                         Num(y_coordinates[k + 2])), Num(2)),
                                 FALSE)>>
                      ELSE <<OutlinePoint(Num(x_coordinates[k + 1]),
                                          Num(y_coordinates[k + 1]), TRUE)>>
                 ELSE <<OutlinePoint(Num(x_coordinates[k + 1]),
                                     Num(y_coordinates[k + 1]),
                                     ~on_curve_point(flags[k + 1]))>>
         IN  IF here = <<>> THEN Abort
             ELSE IF ~rest.ok THEN rest
             ELSE [ok |-> TRUE, points |-> here \o rest.points]

\* Lines 408-445: the curves and segments of a contour from point k on
\* (k is 0-based).
RECURSIVE contour_geometry(_, _, _, _)
contour_geometry(points, k, curves, segments) ==
    IF k >= Len(points)
    THEN [ok |-> TRUE, curves |-> curves, segments |-> segments]
    ELSE IF points[k + 1].control
    THEN IF k = 0 THEN GlyfError("Malformed")
         ELSE contour_geometry(
                  points, k + 1,
                  Append(curves,
                         [p1 |-> points[k], p2 |-> points[k + 1],
                          p3 |-> IF k + 1 >= Len(points) THEN points[1]
                                 ELSE points[k + 2]]),
                  segments)
    ELSE LET l == (k + 1) % Len(points)
         IN  IF l = k THEN GlyfError("Malformed")
             ELSE IF ~points[l + 1].control
             THEN contour_geometry(points, k + 1, curves,
                                   Append(segments, [p1 |-> points[k + 1],
                                                     p2 |-> points[l + 1]]))
             ELSE contour_geometry(points, k + 1, curves, segments)

\* Lines 361-452: the contours from contour j on (j is 0-based).
RECURSIVE glyph_contours(_, _, _, _, _)
glyph_contours(end_pts_of_contours, flags, x_coordinates, y_coordinates, j) ==
    IF j >= Len(end_pts_of_contours) THEN [ok |-> TRUE, contours |-> <<>>]
    ELSE LET range_start == IF j = 0 THEN 0
                            ELSE end_pts_of_contours[j] + 1
             range_end == end_pts_of_contours[j + 1] + 1
             pts == contour_points(flags, x_coordinates, y_coordinates,
                                   range_start, range_end, range_start)
             geo == contour_geometry(pts.points, 0, <<>>, <<>>)
             rest == glyph_contours(end_pts_of_contours, flags,
                                    x_coordinates, y_coordinates, j + 1)
         IN  IF range_start >= range_end THEN GlyfError("Malformed")
             ELSE IF ~pts.ok THEN pts
             ELSE IF ~geo.ok THEN geo
             ELSE IF ~rest.ok THEN rest
             ELSE [ok |-> TRUE,
                   contours |-> <<[points |-> pts.points,
                                   curves |-> geo.curves,
                                   segments |-> geo.segments]>>
                                \o rest.contours]

\* Lines 234-236: the end-point indexes of the contours.
end_pts(bytes, glyph_offset, number_of_contours) ==
    [j \in 1 .. number_of_contours |->
        be_u16(bytes, glyph_offset + 10 + (j - 1) * 2)]

\* Lines 221-463: a simple glyph.
simple_glyph(bytes, glyph_offset, number_of_contours, overflow_checks) ==
    LET end_pts_of_contours_end_offset ==
            glyph_offset + 10 + number_of_contours * 2
        end_pts_of_contours == end_pts(bytes, glyph_offset, number_of_contours)
        instruction_length == be_u16(bytes, end_pts_of_contours_end_offset)
        instructions_end_offset ==
            end_pts_of_contours_end_offset + 2 + instruction_length * 2
        number_of_points ==
            end_pts_of_contours[Len(end_pts_of_contours)] + 1
        fl == read_flags(bytes, <<>>, instructions_end_offset,
                         number_of_points, overflow_checks)
        xs == read_coordinates(bytes, fl.flags, 1, fl.flag_offset, 0, <<>>,
                               "x", overflow_checks)
        ys == read_coordinates(bytes, fl.flags, 1, xs.coordinate_offset, 0,
                               <<>>, "y", overflow_checks)
        cs == glyph_contours(end_pts_of_contours, fl.flags, xs.coordinates,
                             ys.coordinates, 0)
    IN  IF end_pts_of_contours_end_offset + 2 > Len(bytes)
        THEN GlyfError("Truncated")
        ELSE IF ~fl.ok THEN fl
        ELSE IF ~xs.ok THEN xs
        ELSE IF ~ys.ok THEN ys
        ELSE IF ~cs.ok THEN cs
        ELSE [ok |-> TRUE,
              outline |-> [x_min |-> read_i16(bytes, glyph_offset + 2),
                           y_min |-> read_i16(bytes, glyph_offset + 4),
                           x_max |-> read_i16(bytes, glyph_offset + 6),
                           y_max |-> read_i16(bytes, glyph_offset + 8),
                           contours |-> cs.contours,
                           num_packed_points |-> number_of_points]]

\* Lines 200-469: the glyphs from loca entry i on (i is 0-based), added to
\* outlines.
RECURSIVE glyf_glyphs(_, _, _, _, _, _)
glyf_glyphs(bytes, table_offset, offsets, i, outlines, overflow_checks) ==
    IF i >= Len(offsets) - 1 THEN [ok |-> TRUE, outlines |-> outlines]
    ELSE IF offsets[i + 1] = offsets[i + 2]
    THEN glyf_glyphs(bytes, table_offset, offsets, i + 1, outlines,
                     overflow_checks)
    ELSE LET glyph_offset == table_offset + offsets[i + 1]
             number_of_contours == read_i16(bytes, glyph_offset)
             g == simple_glyph(bytes, glyph_offset, number_of_contours,
                               overflow_checks)
         IN  IF glyph_offset + 10 > Len(bytes) THEN GlyfError("Truncated")
             ELSE IF number_of_contours <= 0
             THEN glyf_glyphs(bytes, table_offset, offsets, i + 1, outlines,
                              overflow_checks)
             ELSE IF ~g.ok THEN g
             ELSE glyf_glyphs(bytes, table_offset, offsets, i + 1,
                              (i :> g.outline) @@ outlines, overflow_checks)

\* Lines 186-474.  offsets are the offsets of the loca table.
GlyfTable_try_parse(bytes, table_offset, offsets, overflow_checks) ==
    IF Len(offsets) < 2 THEN Error("Malformed", "LocaTable")
    ELSE glyf_glyphs(bytes, table_offset, offsets, 0, <<>>, overflow_checks)

----------------------------------------------------------------------------
(* Specification of the GlyfTable::try_parse calls.                        *)

U16(n) == <<n \div 256, n % 256>>

\* Flag bytes: control and on-curve points with one-byte positive deltas
\* (X_SHORT, Y_SHORT and the two sign bits), and three on-curve points with
\* two-byte deltas.
FlagControl == 2 + 4 + 16 + 32
FlagOn == 1 + FlagControl
WordFlags == <<1, 1, 1>>

\* End-point lists: one and two contours, contours of 1, 2, 3 and 4 points,
\* and lists that are not strictly increasing.
EndPtsLists ==
    {<<2>>, <<1>>, <<0>>, <<3>>, <<2, 5>>, <<5, 2>>, <<2, 2>>, <<3, 1>>}

NumberOfPoints(endpts) == endpts[Len(endpts)] + 1

\* Which decoded points are control points: none, the first, the second,
\* the second and the third.
ControlPatterns == {{}, {1}, {2}, {2, 3}}

FlagBytes(n, controls) ==
    [i \in 1 .. n |-> IF i \in controls THEN FlagControl ELSE FlagOn]

\* The instruction block: empty, one instruction byte, and a length far
\* beyond the glyph data.
InstructionBlocks == {<<0, 0>>, <<0, 1, 7>>, <<1, 44>>}

\* The repeat counts of a run of n equal flags: exact, one too many, none,
\* and 255.
RepeatCounts(n) == {n - 1, n, 0, 255}

GlyphHeader(number_of_contours) ==
    U16(number_of_contours % 65536) \o U16(0) \o U16(0) \o U16(8) \o U16(8)

EndPtsBytes(endpts) ==
    IF Len(endpts) = 1 THEN U16(endpts[1])
    ELSE U16(endpts[1]) \o U16(endpts[2])

\* One-byte x and y deltas for n points.
DeltaBytes(n) == [i \in 1 .. n |-> 1 + (i % 2)] \o [i \in 1 .. n |-> 2]

PlainGlyphs ==
    {GlyphHeader(Len(e)) \o EndPtsBytes(e) \o ins
         \o FlagBytes(NumberOfPoints(e), c) \o DeltaBytes(NumberOfPoints(e)) :
        e \in EndPtsLists, c \in ControlPatterns, ins \in InstructionBlocks}

RepeatGlyphsOf(e) ==
    {GlyphHeader(Len(e)) \o EndPtsBytes(e) \o <<0, 0>>
         \o <<FlagOn + 8, r>> \o DeltaBytes(NumberOfPoints(e) + 1) :
        r \in RepeatCounts(NumberOfPoints(e))}

RepeatGlyphs == UNION {RepeatGlyphsOf(e) : e \in EndPtsLists}

\* Three points with two-byte deltas; the second x delta takes x beyond
\* 32767 when the first is 32767.
WordGlyphs ==
    {GlyphHeader(1) \o U16(2) \o <<0, 0>>
         \o WordFlags
         \o U16(x) \o U16(1) \o U16(65535) \o U16(3) \o U16(4) \o U16(5) :
        x \in {5, 32767}}

\* A composite glyph and a glyph without contours: header only.
OtherGlyphs == {GlyphHeader(-1), GlyphHeader(0)}

Triangle ==
    GlyphHeader(1) \o U16(2) \o <<0, 0>> \o FlagBytes(3, {}) \o DeltaBytes(3)

\* A triangle with one instruction byte.
InstructionGlyph ==
    GlyphHeader(1) \o U16(2) \o <<0, 1, 7>> \o FlagBytes(3, {})
        \o DeltaBytes(3)

\* <<bytes, table_offset, loca offsets>>: every glyph alone and every
\* truncation of it, glyphs behind padding, tables of two glyphs, an empty
\* glyph, a loca table of one entry, a glyph with an instruction followed
\* by four more bytes.
GlyfCalls ==
    {<<InstructionGlyph \o Zeros(4), 0, <<0, Len(InstructionGlyph) + 4>> >>}
    \cup
    UNION {{<<p, 0, <<0, Len(g)>> >> : p \in Prefixes(g)} :
              g \in PlainGlyphs \cup RepeatGlyphs \cup WordGlyphs
                    \cup OtherGlyphs}
    \cup {<<Zeros(2) \o g, 2, <<0, Len(g)>> >> : g \in RepeatGlyphs}
    \cup {<<Triangle \o g, 0, <<0, Len(Triangle), Len(Triangle) + Len(g)>> >> :
              g \in RepeatGlyphs \cup OtherGlyphs}
    \cup {<<g, 0, <<0, 0, Len(g)>> >> : g \in WordGlyphs}
    \cup {<<Triangle, 0, <<0>> >>, <<Triangle, 0, <<0, 100>> >>,
          <<Triangle, 0, <<100, 0>> >>}

InitGlyf ==
    /\ font = EmptyFont
    /\ pc = "idle"
    /\ call = <<>>
    /\ ret = <<>>

GlyfTryParse ==
    /\ pc = "idle"
    /\ \E c \in GlyfCalls, overflow_checks \in BOOLEAN :
          /\ call' = [bytes |-> c[1], table_offset |-> c[2],
                      offsets |-> c[3], overflow_checks |-> overflow_checks]
          /\ ret' = GlyfTable_try_parse(c[1], c[2], c[3], overflow_checks)
    /\ pc' = "glyf_try_parse"
    /\ UNCHANGED font

NextGlyf == GlyfTryParse

SpecGlyf == InitGlyf /\ [][NextGlyf]_vars

\* C15: for every byte buffer and every loca offset list, try_parse returns
\* a parsed table or an error value (Truncated or Malformed) and reads no
\* index at or beyond the end of the buffer or of the decoded flag, x and y
\* arrays; this covers end-point indexes that are not strictly increasing,
\* a repeat count byte of 255 and an instruction length that runs past the
\* glyph data.
C15_GlyfBoundsSafety ==
    pc = "glyf_try_parse" =>
        \/ ret.ok
        \/ ret.kind \in {"Truncated", "Malformed"}

\* C19: every contour of every outline returned by try_parse has at least
\* 3 points and a first point that is not a control point (a glyph with a
\* shorter contour, or one starting on a control point, is not returned but
\* rejected).
C19_ContourInvariant ==
    (pc = "glyf_try_parse" /\ ret.ok) =>
        \A g \in DOMAIN ret.outlines :
            \A j \in 1 .. Len(ret.outlines[g].contours) :
                LET points == ret.outlines[g].contours[j].points
                IN  Len(points) >= 3 /\ ~points[1].control

\* The stored points of an outline, contour after contour.
RECURSIVE StoredPoints(_, _)
StoredPoints(contours, j) ==
    IF j > Len(contours) THEN <<>>
    ELSE contours[j].points \o StoredPoints(contours, j + 1)

\* The points the glyph at loca entry g (0-based) encodes: the k-th flag
\* and the k-th x and y, for the first number_of_points flags.
DecodedPoints(g) ==
    LET glyph_offset == call.table_offset + call.offsets[g + 1]
        number_of_contours == read_i16(call.bytes, glyph_offset)
        end_offset == glyph_offset + 10 + number_of_contours * 2
        endpts == end_pts(call.bytes, glyph_offset, number_of_contours)
        n == endpts[Len(endpts)] + 1
        fl == read_flags(call.bytes, <<>>,
                         end_offset + 2 + be_u16(call.bytes, end_offset) * 2,
                         n, call.overflow_checks)
        xs == read_coordinates(call.bytes, fl.flags, 1, fl.flag_offset, 0,
                               <<>>, "x", call.overflow_checks)
        ys == read_coordinates(call.bytes, fl.flags, 1, xs.coordinate_offset,
                               0, <<>>, "y", call.overflow_checks)
    IN  [k \in 1 .. n |->
            OutlinePoint(Num(xs.coordinates[k]), Num(ys.coordinates[k]),
                         ~on_curve_point(fl.flags[k]))]

\* C20: for every outline returned by try_parse the stored point sequence
\* has exactly num_packed_points entries, point k being the k-th decoded
\* (x, y, on-curve flag); the midpoint implied by two consecutive control
\* points is not a stored point.
C20_RawPointsAreDecodedPoints ==
    (pc = "glyf_try_parse" /\ ret.ok) =>
        \A g \in DOMAIN ret.outlines :
            LET stored == StoredPoints(ret.outlines[g].contours, 1)
            IN  /\ Len(stored) = ret.outlines[g].num_packed_points
                /\ stored = DecodedPoints(g)

\* The first n flags as stated, unpacked from `offset` on: a flag with
\* REPEAT_FLAG is followed by a count byte r and stands for r + 1 flags.
RECURSIVE StatedFlags(_, _, _, _)
StatedFlags(bytes, offset, n, flags) ==
    IF Len(flags) >= n
    THEN [ok |-> TRUE, flags |-> SubSeq(flags, 1, n), offset |-> offset]
    ELSE IF offset >= Len(bytes) THEN [ok |-> FALSE]
    ELSE IF ~repeat_flag(bytes[offset + 1])
    THEN StatedFlags(bytes, offset + 1, n, Append(flags, bytes[offset + 1]))
    ELSE IF offset + 1 >= Len(bytes) THEN [ok |-> FALSE]
    ELSE StatedFlags(bytes, offset + 2, n,
                     flags \o [k \in 1 .. bytes[offset + 2] + 1 |->
                                  bytes[offset + 1]])

\* The coordinates as stated, from flag i on: the running sum of one delta
\* a flag, an unsigned byte signed by the SAME/POSITIVE bit when SHORT is
\* set, else zero when SAME is set, else a signed 16-bit word.
RECURSIVE StatedCoordinates(_, _, _, _, _, _, _)
StatedCoordinates(bytes, flags, i, offset, sum, acc, axis) ==
    IF i > Len(flags)
    THEN [ok |-> TRUE, coordinates |-> acc, offset |-> offset]
    ELSE LET short == IF axis = "x" THEN x_short_vector(flags[i])
                      ELSE y_short_vector(flags[i])
             same == IF axis = "x"
                     THEN x_is_same_or_positive_x_short_vector(flags[i])
                     ELSE y_is_same_or_positive_y_short_vector(flags[i])
         IN  IF short
             THEN IF offset >= Len(bytes) THEN [ok |-> FALSE]
                  ELSE LET v == sum + (IF same THEN bytes[offset + 1]
                                       ELSE -bytes[offset + 1])
                       IN  StatedCoordinates(bytes, flags, i + 1, offset + 1,
                                             v, Append(acc, v), axis)
             ELSE IF same
             THEN StatedCoordinates(bytes, flags, i + 1, offset, sum,
                                    Append(acc, sum), axis)
             ELSE IF offset + 2 > Len(bytes) THEN [ok |-> FALSE]
             ELSE LET v == sum + read_i16(bytes, offset)
                  IN  StatedCoordinates(bytes, flags, i + 1, offset + 2, v,
                                        Append(acc, v), axis)

\* The y coordinates after the x coordinates xs, and the points.
StatedYs(bytes, fl, xs) ==
    IF ~xs.ok THEN xs
    ELSE LET ys == StatedCoordinates(bytes, fl.flags, 1, xs.offset, 0, <<>>,
                                     "y")
         IN  IF ~ys.ok THEN ys
             ELSE [ok |-> TRUE,
                   flags |-> fl.flags,
                   points |-> [k \in 1 .. Len(fl.flags) |->
                                  OutlinePoint(Num(xs.coordinates[k]),
                                               Num(ys.coordinates[k]),
                                               ~on_curve_point(fl.flags[k]))]]

StatedXs(bytes, fl) ==
    IF ~fl.ok THEN fl
    ELSE StatedYs(bytes, fl,
                  StatedCoordinates(bytes, fl.flags, 1, fl.offset, 0, <<>>,
                                    "x"))

\* The simple glyph at loca entry g (0-based) decoded as stated: n flags
\* from the byte after the L instruction bytes, n x deltas, n y deltas.
StatedGlyph(g) ==
    LET glyph_offset == call.table_offset + call.offsets[g + 1]
        number_of_contours == read_i16(call.bytes, glyph_offset)
        end_offset == glyph_offset + 10 + number_of_contours * 2
        n == be_u16(call.bytes, end_offset - 2) + 1
        L == be_u16(call.bytes, end_offset)
    IN  StatedXs(call.bytes,
                 StatedFlags(call.bytes, end_offset + 2 + L, n, <<>>))

\* C30: for a simple glyph of n = last end-of-contour index + 1 points and
\* instruction length L, try_parse reads the flags from the byte right
\* after the L instruction bytes, unpacks exactly n flags (a flag with
\* REPEAT_FLAG and count byte r stands for r + 1 flags), then decodes
\* exactly n x deltas and exactly n y deltas, each coordinate being the
\* running sum of the deltas so far.  The points of an outline returned
\* are compared where all n flags are on-curve, so that no point is
\* implied.
C30_SimpleGlyphDecoding ==
    (pc = "glyf_try_parse" /\ ret.ok) =>
        \A g \in DOMAIN ret.outlines :
            /\ StatedGlyph(g).ok
            /\ (\A k \in 1 .. Len(StatedGlyph(g).flags) :
                    on_curve_point(StatedGlyph(g).flags[k])) =>
                   StoredPoints(ret.outlines[g].contours, 1)
                       = StatedGlyph(g).points

----------------------------------------------------------------------------
(* GvarTable::try_parse: packed point numbers and packed deltas.  The      *)
(* bytes argument is the slice the code passes.                            *)

GvarTruncated == Error("Truncated", "GvarTable")
GvarMalformed == Error("Malformed", "GvarTable")

\* A u16 sum: with overflow checks an overflow aborts, without it wraps.
add_u16(a, b, overflow_checks) ==
    LET s == a + b
    IN  IF s <= 65535 THEN [ok |-> TRUE, v |-> s]
        ELSE IF overflow_checks THEN Abort
        ELSE [ok |-> TRUE, v |-> s % 65536]

\* gvar_table.rs lines 429-465: the loop of parse_packed_points.
RECURSIVE packed_points_loop(_, _, _, _, _, _, _, _)
packed_points_loop(bytes, total, offset, remaining, points_are_words, last_point, points, overflow_checks) ==
    IF remaining = 0
    THEN IF Len(points) = total
         THEN [ok |-> TRUE, offset |-> offset, points |-> points]
         ELSE IF offset >= Len(bytes) THEN GvarTruncated
         ELSE IF Len(points) + (bytes[offset + 1] % 128) + 1 > total
         THEN GvarMalformed
         ELSE packed_points_loop(bytes, total, offset + 1,
                                 (bytes[offset + 1] % 128) + 1,
                                 bytes[offset + 1] >= 128,
                                 last_point, points, overflow_checks)
    ELSE IF points_are_words
    THEN IF offset + 2 > Len(bytes) THEN GvarTruncated
         ELSE LET p == add_u16(last_point, be_u16(bytes, offset),
                               overflow_checks)
              IN  IF ~p.ok THEN p
                  ELSE packed_points_loop(bytes, total, offset + 2,
                                          remaining - 1, points_are_words,
                                          p.v, Append(points, p.v),
                                          overflow_checks)
    ELSE IF offset >= Len(bytes) THEN GvarTruncated
    ELSE LET p == add_u16(last_point, bytes[offset + 1], overflow_checks)
         IN  IF ~p.ok THEN p
             ELSE packed_points_loop(bytes, total, offset + 1, remaining - 1,
                                     points_are_words, p.v,
                                     Append(points, p.v), overflow_checks)

\* gvar_table.rs lines 402-468.  offset is advanced past a one-byte count
\* only; after a two-byte count it stays 0.
parse_packed_points(bytes, overflow_checks) ==
    IF 1 > Len(bytes) THEN GvarTruncated
    ELSE IF bytes[1] >= 128 /\ 2 > Len(bytes) THEN GvarTruncated
    ELSE LET total == IF bytes[1] >= 128
                      THEN (bytes[1] % 128) * 256 + bytes[2]
                      ELSE bytes[1]
             offset == IF bytes[1] >= 128 THEN 0 ELSE 1
         IN  IF total = 0
             THEN [ok |-> TRUE, offset |-> offset, points |-> <<>>]
             ELSE packed_points_loop(bytes, total, offset, 0, FALSE, 0, <<>>,
                                     overflow_checks)

\* i8::from_be_bytes as i16.
as_i8(b) == IF b >= 128 THEN b - 256 ELSE b

\* gvar_table.rs lines 352-390: the loop of parse_packed_deltas.
RECURSIVE packed_deltas_loop(_, _, _, _, _, _, _)
packed_deltas_loop(bytes, count_x2, deltas, are_zero, are_words, remaining, offset) ==
    IF remaining = 0
    THEN IF Len(deltas) > count_x2 THEN GvarMalformed
         ELSE IF Len(deltas) = count_x2 THEN [ok |-> TRUE, deltas |-> deltas]
         ELSE IF offset + 1 > Len(bytes) THEN GvarTruncated
         ELSE packed_deltas_loop(bytes, count_x2, deltas,
                                 bytes[offset + 1] >= 128,
                                 (bytes[offset + 1] \div 64) % 2 = 1,
                                 (bytes[offset + 1] % 64) + 1, offset + 1)
    ELSE IF are_zero
    THEN packed_deltas_loop(bytes, count_x2, Append(deltas, 0), are_zero,
                            are_words, remaining - 1, offset)
    ELSE IF are_words
    THEN IF offset + 2 > Len(bytes) THEN GvarTruncated
         ELSE packed_deltas_loop(bytes, count_x2,
                                 Append(deltas, read_i16(bytes, offset)),
                                 are_zero, are_words, remaining - 1,
                                 offset + 2)
    ELSE IF offset + 1 > Len(bytes) THEN GvarTruncated
    ELSE packed_deltas_loop(bytes, count_x2,
                            Append(deltas, as_i8(bytes[offset + 1])),
                            are_zero, are_words, remaining - 1, offset + 1)

\* parse_packed_deltas that pairs the values as they come, x and y in
\* turn, instead of all x values followed by all y values.
parse_packed_deltas_interleaved(bytes, count) ==
    LET r == packed_deltas_loop(bytes, count * 2, <<>>, FALSE, FALSE, 0, 0)
    IN  IF ~r.ok THEN r
        ELSE [ok |-> TRUE,
              deltas |-> [k \in 1 .. count |->
                             <<r.deltas[2 * k - 1], r.deltas[2 * k]>>]]

\* gvar_table.rs lines 344-400: count x deltas, then count y deltas.
parse_packed_deltas(bytes, count) ==
    LET r == packed_deltas_loop(bytes, count * 2, <<>>, FALSE, FALSE, 0, 0)
    IN  IF ~r.ok THEN r
        ELSE [ok |-> TRUE,
              deltas |-> [k \in 1 .. count |->
                             <<r.deltas[k], r.deltas[count + k]>>]]

\* read_f2dot14 as an exact fraction.
read_f2dot14(bytes, offset) == Rat(read_i16(bytes, offset), 16384)

\* n consecutive F2Dot14 values from offset on.
f2dot14_vec(bytes, offset, n) ==
    [a \in 1 .. n |-> read_f2dot14(bytes, offset + (a - 1) * 2)]

\* The slice bytes[s .. e] of the code; s <= e <= Len(bytes) is the
\* condition under which the code's slice does not abort.
Slice(bytes, s, e) == SubSeq(bytes, s + 1, e)
SliceOk(bytes, s, e) == s <= e /\ e <= Len(bytes)

\* gvar_table.rs lines 172-245: the header of the tuple variation at
\* tuple_variation_header_offset ho of the glyph's variation data gvd.
\* ho_end is the offset after the header.
tuple_header(gvd, ho, axis_count, shared_tuples) ==
    LET tuple_index == be_u16(gvd, ho + 2)
        has_embedded_peak_tuple == tuple_index >= 32768
        has_intermediate_region == (tuple_index \div 16384) % 2 = 1
        shared_index == (tuple_index % 4096) * axis_count
        ho_peak == IF has_embedded_peak_tuple THEN ho + 4 + 2 * axis_count
                   ELSE ho + 4
        ho_end == IF has_intermediate_region THEN ho_peak + 4 * axis_count
                  ELSE ho_peak
    IN  IF ho + 4 > Len(gvd) THEN GvarTruncated
        ELSE IF has_embedded_peak_tuple /\ ho_peak > Len(gvd)
        THEN GvarTruncated
        ELSE IF ~has_embedded_peak_tuple
                /\ shared_index + axis_count > Len(shared_tuples)
        THEN GvarMalformed
        ELSE IF has_intermediate_region /\ ho_end > Len(gvd)
        THEN GvarTruncated
        ELSE [ok |-> TRUE,
              variation_data_size |-> be_u16(gvd, ho),
              has_private_point_numbers |-> (tuple_index \div 8192) % 2 = 1,
              peak |-> IF has_embedded_peak_tuple
                       THEN f2dot14_vec(gvd, ho + 4, axis_count)
                       ELSE SubSeq(shared_tuples, shared_index + 1,
                                   shared_index + axis_count),
              interm |-> IF has_intermediate_region
                         THEN [present |-> TRUE,
                               start |-> f2dot14_vec(gvd, ho_peak, axis_count),
                               end |-> f2dot14_vec(gvd,
                                                   ho_peak + 2 * axis_count,
                                                   axis_count)]
                         ELSE None,
              ho_end |-> ho_end]

\* Lines 247-261: the point numbers of the tuple and the offset of its
\* deltas: private points parsed from the tuple's slice of the serialized
\* data sd at serialized_offset so, or the shared ones.
tuple_points(sd, so, hdr, shared_point_numbers, overflow_checks) ==
    IF ~hdr.has_private_point_numbers
    THEN [ok |-> TRUE, offset |-> 0, points |-> shared_point_numbers]
    ELSE IF so >= Len(sd) THEN GvarTruncated
    ELSE IF ~SliceOk(sd, so, so + hdr.variation_data_size) THEN Abort
    ELSE parse_packed_points(Slice(sd, so, so + hdr.variation_data_size),
                             overflow_checks)

\* Lines 285-324: the sanity checks and the tuple pushed; pd is the result
\* of parse_packed_deltas.
tuple_checked(hdr, pts, pd, so, num_packed_points) ==
    IF ~pd.ok THEN pd
    ELSE IF ~GvarAccepts([peak |-> hdr.peak, interm |-> hdr.interm,
                          points |-> pts.points, deltas |-> pd.deltas],
                         num_packed_points)
    THEN GvarMalformed
    ELSE [ok |-> TRUE,
          tuple |-> [peak |-> hdr.peak, interm |-> hdr.interm,
                     points |-> pts.points, deltas |-> pd.deltas],
          ho |-> hdr.ho_end,
          so |-> so + hdr.variation_data_size]

\* Lines 263-285: the deltas of the tuple; pts is the result of
\* tuple_points.
tuple_deltas(sd, so, hdr, pts, num_packed_points) ==
    IF ~pts.ok THEN pts
    ELSE IF Len(pts.points) > 0
            /\ pts.points[Len(pts.points)] > num_packed_points + 4
    THEN GvarMalformed
    ELSE IF so + pts.offset >= Len(sd) THEN GvarMalformed
    ELSE IF ~SliceOk(sd, so + pts.offset, so + hdr.variation_data_size)
    THEN Abort
    ELSE tuple_checked(
             hdr, pts,
             parse_packed_deltas(
                 Slice(sd, so + pts.offset, so + hdr.variation_data_size),
                 IF Len(pts.points) = 0 THEN num_packed_points + 4
                 ELSE Len(pts.points)),
             so, num_packed_points)

\* Lines 247-324: the tuple after its header hdr.
tuple_body(sd, so, hdr, shared_point_numbers, num_packed_points, overflow_checks) ==
    IF ~hdr.ok THEN hdr
    ELSE tuple_deltas(sd, so, hdr,
                      tuple_points(sd, so, hdr, shared_point_numbers,
                                   overflow_checks),
                      num_packed_points)

\* gvar_table.rs lines 172-324: one tuple variation.  gvd is the glyph's
\* variation data, sd its serialized data; ho and so are
\* tuple_variation_header_offset and serialized_offset.
tuple_variation(gvd, sd, ho, so, axis_count, shared_tuples, shared_point_numbers, num_packed_points, overflow_checks) ==
    tuple_body(sd, so, tuple_header(gvd, ho, axis_count, shared_tuples),
               shared_point_numbers, num_packed_points, overflow_checks)

\* Line 319: the tuple t is pushed ahead of the tuples that follow it.
tuple_push(t, rest) ==
    IF ~rest.ok THEN rest
    ELSE [ok |-> TRUE, tuples |-> <<t.tuple>> \o rest.tuples]

RECURSIVE tuple_variations(_, _, _, _, _, _, _, _, _, _)

\* Lines 171-325: the n - 1 tuple variations after the tuple t.
tuple_rest(gvd, sd, t, n, axis_count, shared_tuples, shared_point_numbers, num_packed_points, overflow_checks) ==
    IF ~t.ok THEN t
    ELSE tuple_push(t, tuple_variations(gvd, sd, t.ho, t.so, n - 1,
                                        axis_count, shared_tuples,
                                        shared_point_numbers,
                                        num_packed_points, overflow_checks))

\* Lines 171-325: the remaining n tuple variations of a glyph.
tuple_variations(gvd, sd, ho, so, n, axis_count, shared_tuples, shared_point_numbers, num_packed_points, overflow_checks) ==
    IF n = 0 THEN [ok |-> TRUE, tuples |-> <<>>]
    ELSE tuple_rest(gvd, sd,
                    tuple_variation(gvd, sd, ho, so, axis_count,
                                    shared_tuples, shared_point_numbers,
                                    num_packed_points, overflow_checks),
                    n, axis_count, shared_tuples, shared_point_numbers,
                    num_packed_points, overflow_checks)

\* Lines 156-163: the shared point numbers of a glyph, parsed from the
\* start of its serialized data when the count field has the flag.
shared_points(sd, count_field, overflow_checks) ==
    IF count_field >= 32768 THEN parse_packed_points(sd, overflow_checks)
    ELSE [ok |-> TRUE, offset |-> 0, points |-> <<>>]

\* Lines 167-325: the tuples of a glyph; sp is the result of shared_points.
glyph_tuples(gvd, sd, count_field, sp, axis_count, shared_tuples, num_packed_points, overflow_checks) ==
    IF ~sp.ok THEN sp
    ELSE tuple_variations(gvd, sd, 4, sp.offset, count_field % 4096,
                          axis_count, shared_tuples, sp.points,
                          num_packed_points, overflow_checks)

\* Lines 134-332: the variation data gvd = bytes[s .. e] of one glyph.
glyph_variation(gvd, axis_count, shared_tuples, num_packed_points, overflow_checks) ==
    IF 4 > Len(gvd) THEN GvarTruncated
    ELSE IF be_u16(gvd, 2) >= Len(gvd) THEN GvarTruncated
    ELSE glyph_tuples(gvd, Slice(gvd, be_u16(gvd, 2), Len(gvd)),
                      be_u16(gvd, 0),
                      shared_points(Slice(gvd, be_u16(gvd, 2), Len(gvd)),
                                    be_u16(gvd, 0), overflow_checks),
                      axis_count, shared_tuples, num_packed_points,
                      overflow_checks)

\* The `continue` of the glyph loop.
Skipped == [ok |-> TRUE, skipped |-> TRUE]

\* Lines 116-132: glyph i with variation data bytes[s .. e]: skipped when
\* glyf has no outline for it or the data is empty.
gvar_glyph(bytes, s, e, i, axis_count, shared_tuples, outlines, overflow_checks) ==
    IF i \notin DOMAIN outlines THEN Skipped
    ELSE IF s > Len(bytes) \/ e > Len(bytes) \/ s > e THEN GvarMalformed
    ELSE IF s = e THEN Skipped
    ELSE glyph_variation(Slice(bytes, s, e), axis_count, shared_tuples,
                         outlines[i], overflow_checks)

\* Lines 327-332: the glyph's variations are inserted under its id.
glyph_insert(i, gv, rest) ==
    IF ~gv.ok THEN gv
    ELSE IF ~rest.ok THEN rest
    ELSE IF gv = Skipped THEN rest
    ELSE [ok |-> TRUE,
          glyph_variations |->
              (i :> [tuples |-> gv.tuples]) @@ rest.glyph_variations]

\* Lines 115-333: the glyphs from glyph i on (0-based).  offsets are the
\* glyph_variation_data_offsets; outlines maps a glyph id to its
\* num_packed_points.
RECURSIVE gvar_glyphs(_, _, _, _, _, _, _, _)
gvar_glyphs(bytes, offsets, glyph_count, i, axis_count, shared_tuples, outlines, overflow_checks) ==
    IF i >= glyph_count THEN [ok |-> TRUE, glyph_variations |-> <<>>]
    ELSE glyph_insert(i,
                      gvar_glyph(bytes, offsets[i + 1], offsets[i + 2], i,
                                 axis_count, shared_tuples, outlines,
                                 overflow_checks),
                      gvar_glyphs(bytes, offsets, glyph_count, i + 1,
                                  axis_count, shared_tuples, outlines,
                                  overflow_checks))

\* Lines 335-340: the table returned; gs is the result of gvar_glyphs.
gvar_table(major_version, minor_version, axis_count, gs) ==
    IF ~gs.ok THEN gs
    ELSE [ok |-> TRUE, major_version |-> major_version,
          minor_version |-> minor_version, axis_count |-> axis_count,
          glyph_variations |-> gs.glyph_variations]

\* Lines 79-111: the glyph variation data offsets (short offsets count
\* words) and the shared tuples, then the glyphs.
gvar_body(bytes, table_offset, axis_count, share_tuple_count, shared_tuples_offset, glyph_count, long, array_offset, outlines, overflow_checks) ==
    IF table_offset + 20 + (glyph_count + 1) * (IF long THEN 4 ELSE 2)
           > Len(bytes)
    THEN GvarTruncated
    ELSE IF shared_tuples_offset + share_tuple_count * 2 * axis_count
                > Len(bytes)
    THEN GvarTruncated
    ELSE gvar_table(
             be_u16(bytes, table_offset), be_u16(bytes, table_offset + 2),
             axis_count,
             gvar_glyphs(
                 bytes,
                 [i \in 1 .. glyph_count + 1 |->
                     array_offset
                     + (IF long
                        THEN be_u32(bytes, table_offset + 20 + (i - 1) * 4)
                        ELSE be_u16(bytes, table_offset + 20 + (i - 1) * 2)
                                 * 2)],
                 glyph_count, 0, axis_count,
                 f2dot14_vec(bytes, shared_tuples_offset,
                             share_tuple_count * axis_count),
                 outlines, overflow_checks))

\* gvar_table.rs lines 51-341.  outlines stands for the glyf table.
GvarTable_try_parse(bytes, table_offset, outlines, overflow_checks) ==
    IF table_offset + 20 > Len(bytes) THEN GvarTruncated
    ELSE IF be_u16(bytes, table_offset) # 1
            \/ be_u16(bytes, table_offset + 2) # 0
    THEN Error("UnexpectedVersion", "GvarTable")
    ELSE gvar_body(bytes, table_offset,
                   be_u16(bytes, table_offset + 4),
                   be_u16(bytes, table_offset + 6),
                   be_u32(bytes, table_offset + 8) + table_offset,
                   be_u16(bytes, table_offset + 12),
                   be_u16(bytes, table_offset + 14) % 2 = 1,
                   be_u32(bytes, table_offset + 16) + table_offset,
                   outlines, overflow_checks)

----------------------------------------------------------------------------
(* Specification of the parse_packed_points calls.                         *)

MaxPointBytes == 6

\* Counts and deltas 0, 1 and 2, a run of two words, and 255.
PointByteValues == {0, 1, 2, 129, 255}

RECURSIVE ByteStrings(_, _)
ByteStrings(values, n) ==
    IF n = 0 THEN {<<>>}
    ELSE LET shorter == ByteStrings(values, n - 1)
         IN  shorter \cup {Append(s, b) : s \in {t \in shorter : Len(t) = n - 1},
                                          b \in values}

\* Buffers that start with a two-byte count: 0x80, then the low byte of
\* the total and the runs.
TwoByteCountStrings ==
    {<<128>> \o s : s \in ByteStrings({0, 1, 2}, MaxPointBytes - 1)}

PointBuffers ==
    ByteStrings(PointByteValues, MaxPointBytes) \cup TwoByteCountStrings

InitPoints ==
    /\ font = EmptyFont
    /\ pc = "idle"
    /\ call = <<>>
    /\ ret = <<>>

ParsePackedPoints ==
    /\ pc = "idle"
    /\ \E bytes \in PointBuffers,
          overflow_checks \in BOOLEAN :
          /\ call' = [bytes |-> bytes, overflow_checks |-> overflow_checks]
          /\ ret' = parse_packed_points(bytes, overflow_checks)
    /\ pc' = "parse_packed_points"
    /\ UNCHANGED font

NextPoints == ParsePackedPoints

SpecPoints == InitPoints /\ [][NextPoints]_vars

\* C17: whenever parse_packed_points succeeds, the decoded point numbers p
\* satisfy p[i] < p[i+1] for every adjacent pair, for byte runs, word runs,
\* zero-valued deltas and sums exceeding 65535.
C17_PackedPointsStrictlyIncreasing ==
    (pc = "parse_packed_points" /\ ret.ok) =>
        \A i \in 1 .. Len(ret.points) - 1 :
            ret.points[i] < ret.points[i + 1]

\* The n point numbers of a run whose data starts at offset: each adds
\* its byte or word to the point before it.
RECURSIVE StatedRun(_, _, _, _, _)
StatedRun(bytes, offset, words, n, last_point) ==
    IF n = 0 THEN <<>>
    ELSE LET p == last_point + (IF words THEN be_u16(bytes, offset)
                                ELSE bytes[offset + 1])
         IN  <<p>> \o StatedRun(bytes, offset + (IF words THEN 2 ELSE 1),
                                words, n - 1, p)

PointOverflow == [ok |-> FALSE, kind |-> "Overflow", source |-> "GvarTable"]

\* The framing as stated, from offset on with `need` points still to come:
\* a control byte, then (low 7 bits + 1) point deltas, words when its top
\* bit is set.  A point number beyond 65535 is reported as PointOverflow.
RECURSIVE StatedRuns(_, _, _, _, _)
StatedRuns(bytes, offset, need, last_point, points) ==
    IF need = 0 THEN [ok |-> TRUE, offset |-> offset, points |-> points]
    ELSE IF offset >= Len(bytes) THEN GvarTruncated
    ELSE LET n == (bytes[offset + 1] % 128) + 1
             words == bytes[offset + 1] >= 128
             size == IF words THEN 2 ELSE 1
         IN  IF n > need THEN GvarMalformed
             ELSE IF offset + 1 + n * size > Len(bytes) THEN GvarTruncated
             ELSE LET run == StatedRun(bytes, offset + 1, words, n, last_point)
                  IN  IF run[n] > 65535 THEN PointOverflow
                      ELSE StatedRuns(bytes, offset + 1 + n * size, need - n,
                                      run[n], points \o run)

\* The total and the decoding as stated: one count byte when its top bit
\* is clear, the low 15 bits of two bytes when it is set, the runs from the
\* byte after the count; offset is the number of bytes consumed.
StatedPackedPoints(bytes) ==
    IF Len(bytes) < 1 THEN GvarTruncated
    ELSE IF bytes[1] >= 128 /\ Len(bytes) < 2 THEN GvarTruncated
    ELSE IF bytes[1] >= 128
    THEN StatedRuns(bytes, 2, (bytes[1] % 128) * 256 + bytes[2], 0, <<>>)
    ELSE StatedRuns(bytes, 1, bytes[1], 0, <<>>)

\* C24: parse_packed_points reads the total from one count byte, or from
\* the low 15 bits of two bytes when the top bit is set, decodes the runs
\* from the byte after the count, yields exactly `total` point numbers on
\* success (Malformed for a run exceeding the total, Truncated for missing
\* bytes) and returns the number of bytes consumed: count bytes, control
\* bytes and run data.
C24_PackedPointsFraming ==
    (pc = "parse_packed_points"
        /\ StatedPackedPoints(call.bytes) # PointOverflow) =>
        ret = StatedPackedPoints(call.bytes)

----------------------------------------------------------------------------
(* Specification of the parse_packed_deltas calls.                         *)

MaxDeltaBytes == 5

\* Control bytes and data: runs of 1, 2 and 4 bytes (0, 1, 3), a run of 2
\* words (65), runs of 4 and of 64 zeros (131, 255).
DeltaByteValues == {0, 1, 3, 65, 131, 255}

\* Numbers of points whose deltas are asked for.
DeltaCounts == {0, 1, 2}

InitDeltas ==
    /\ font = EmptyFont
    /\ pc = "idle"
    /\ call = <<>>
    /\ ret = <<>>

ParsePackedDeltas ==
    /\ pc = "idle"
    /\ \E bytes \in ByteStrings(DeltaByteValues, MaxDeltaBytes),
          count \in DeltaCounts :
          /\ call' = [bytes |-> bytes, count |-> count]
          /\ ret' = parse_packed_deltas(bytes, count)
    /\ pc' = "parse_packed_deltas"
    /\ UNCHANGED font

NextDeltas == ParsePackedDeltas

SpecDeltas == InitDeltas /\ [][NextDeltas]_vars

\* A byte and a big-endian word as signed numbers.
SignedByte(b) == IF b >= 128 THEN b - 256 ELSE b
SignedWord(hi, lo) ==
    IF hi * 256 + lo >= 32768 THEN hi * 256 + lo - 65536 ELSE hi * 256 + lo

\* The values of the runs as stated, from offset on, after the values v:
\* a run holds (low 6 bits + 1) values; zeros without data when the top
\* bit is set, else words when the next bit is set, else bytes.
RECURSIVE StatedDeltaRuns(_, _, _, _)
StatedDeltaRuns(bytes, offset, want, v) ==
    IF Len(v) > want THEN GvarMalformed
    ELSE IF Len(v) = want THEN [ok |-> TRUE, values |-> v]
    ELSE IF offset >= Len(bytes) THEN GvarTruncated
    ELSE LET c == bytes[offset + 1]
             n == (c % 64) + 1
         IN  IF c >= 128
             THEN StatedDeltaRuns(bytes, offset + 1, want,
                                  v \o [k \in 1 .. n |-> 0])
             ELSE IF (c \div 64) % 2 = 1
             THEN IF offset + 1 + 2 * n > Len(bytes) THEN GvarTruncated
                  ELSE StatedDeltaRuns(
                           bytes, offset + 1 + 2 * n, want,
                           v \o [k \in 1 .. n |->
                                    SignedWord(bytes[offset + 2 * k],
                                               bytes[offset + 2 * k + 1])])
             ELSE IF offset + 1 + n > Len(bytes) THEN GvarTruncated
                  ELSE StatedDeltaRuns(
                           bytes, offset + 1 + n, want,
                           v \o [k \in 1 .. n |->
                                    SignedByte(bytes[offset + 1 + k])])

\* C25: parse_packed_deltas(bytes, n) fails with Truncated when the bytes
\* run out and with Malformed when the runs produce more than 2n values,
\* and otherwise returns exactly n pairs, pair i being (v[i], v[n + i]) of
\* the 2n values v the runs produce in order: zeros without data bytes for a
\* run with the top bit set, signed big-endian words for a run with the
\* next bit set, signed bytes for any other, (low 6 bits + 1) values a run;
\* a run may span the boundary between the x and the y values.
C25_PackedDeltasDecoding ==
    (pc = "parse_packed_deltas") =>
        LET st == StatedDeltaRuns(call.bytes, 0, 2 * call.count, <<>>)
        IN  IF st.ok
            THEN /\ ret.ok
                 /\ Len(ret.deltas) = call.count
                 /\ \A i \in 1 .. call.count :
                        ret.deltas[i]
                            = <<st.values[i], st.values[call.count + i]>>
            ELSE ret = st

\* Two points from one run of four bytes 1, 3, -1, 0 that spans the x and
\* the y values: the pairs are (1, -1) and (3, 0).
C25_Witness ==
    /\ pc = "parse_packed_deltas"
    /\ call.count = 2
    /\ call.bytes = <<3, 1, 3, 255, 0>>
    /\ ret.ok
    /\ ret.deltas = << <<1, -1>>, <<3, 0>> >>

----------------------------------------------------------------------------
(* Specification of the GvarTable::try_parse calls: tables of one axis,     *)
(* one shared tuple and two glyphs, of which glyph 0 has an outline of one *)
(* point.                                                                  *)

U32(n) == <<0, 0>> \o U16(n)

F2Dot14One == <<64, 0>>

\* Shared point numbers: none, or the single point 0.
SharedPointBytes == {<<>>, <<1, 0, 0>>}

\* <<tuple_index flags, header bytes after the flags, private point bytes,
\*   number of points named>>: an embedded peak; an embedded peak with the
\* private point 2; the shared tuple 0 with an intermediate region; the
\* shared tuple 1, which the table does not have; an embedded peak of 3/2;
\* an embedded peak of -1/2 with the region [0, 1]; the shared tuple 0 with
\* the region [1, 0]; an embedded peak with the private point 5, the
\* number of points and phantom points of glyph 0; an embedded peak with
\* the private points 0 and 4, one delta short.
TupleKinds ==
    {<<32768, F2Dot14One, <<>>, 0>>,
     <<32768 + 8192, F2Dot14One, <<1, 0, 2>>, 1>>,
     <<16384, U16(0) \o F2Dot14One, <<>>, 0>>,
     <<1, <<>>, <<>>, 0>>,
     <<32768, <<96, 0>>, <<>>, 0>>,
     <<32768 + 16384, <<224, 0>> \o U16(0) \o F2Dot14One, <<>>, 0>>,
     <<16384, F2Dot14One \o U16(0), <<>>, 0>>,
     <<32768 + 8192, F2Dot14One, <<1, 0, 5>>, 1>>,
     <<32768 + 8192, F2Dot14One, <<2, 1, 0, 4>>, 1>>}

\* Packed deltas, all zero: one run of 2 * count values.
ZeroDeltas(count) == <<128 + 2 * count - 1>>

\* The serialized data of a tuple: its private points and the deltas of
\* the points it names (all 1 + 4 points when it names none and there are
\* no shared points).
TupleData(kind, shared) ==
    kind[3] \o ZeroDeltas(IF kind[4] > 0 THEN kind[4]
                          ELSE IF shared # <<>> THEN 1 ELSE 5)

\* variationDataSize of a tuple with d bytes of data: exact, too large by 1
\* and by 4, and 0.
DataSizes(d) == {d, d + 1, d + 4, 0}

\* The variation data of glyph 0: n tuples of one kind, the first with
\* variationDataSize sz.
GlyphData(kind, shared, sz, n) ==
    LET hdr(size) == U16(size) \o U16(kind[1]) \o kind[2]
        d == TupleData(kind, shared)
        headers == IF n = 1 THEN hdr(sz) ELSE hdr(sz) \o hdr(Len(d))
        data == IF n = 1 THEN d ELSE d \o d
    IN  U16(n + (IF shared # <<>> THEN 32768 ELSE 0))
            \o U16(4 + Len(headers)) \o headers \o shared \o data

\* The table: header, three glyph offsets (short or long), one shared
\* tuple, the data of glyph 0.  Short offsets count words: the data is
\* padded to an even length.
GvarBytes(gd, long) ==
    LET padded == IF Len(gd) % 2 = 1 THEN gd \o <<0>> ELSE gd
        osz == IF long THEN 12 ELSE 6
        off(n) == IF long THEN U32(n) ELSE U16(n \div 2)
    IN  U16(1) \o U16(0) \o U16(1) \o U16(1) \o U32(20 + osz) \o U16(2)
            \o U16(IF long THEN 1 ELSE 0) \o U32(20 + osz + 2)
            \o off(0) \o off(Len(padded)) \o off(Len(padded))
            \o F2Dot14One \o padded

GvarGlyphDatas ==
    UNION {{GlyphData(k, sh, sz, n) : sz \in DataSizes(Len(TupleData(k, sh)))} :
              k \in TupleKinds, sh \in SharedPointBytes, n \in {1, 2}}

\* Every table and every truncation of it.
GvarBuffers ==
    UNION {Prefixes(GvarBytes(gd, long)) :
              gd \in GvarGlyphDatas, long \in BOOLEAN}

InitGvarParse ==
    /\ font = EmptyFont
    /\ pc = "idle"
    /\ call = <<>>
    /\ ret = <<>>

GvarTryParse ==
    /\ pc = "idle"
    /\ \E bytes \in GvarBuffers, overflow_checks \in BOOLEAN :
          /\ call' = [bytes |-> bytes, outlines |-> (0 :> 1),
                      overflow_checks |-> overflow_checks]
          /\ ret' = GvarTable_try_parse(bytes, 0, (0 :> 1), overflow_checks)
    /\ pc' = "gvar_try_parse"
    /\ UNCHANGED font

NextGvarParse == GvarTryParse

SpecGvarParse == InitGvarParse /\ [][NextGvarParse]_vars

\* C16: for every byte buffer, try_parse returns a parsed table or an error
\* value (Truncated or Malformed) and never slices or reads past the end of
\* a glyph's serialized variation data; a tuple header whose
\* variationDataSize exceeds the bytes remaining after the current
\* serialized offset is rejected with an error.
C16_GvarBoundsSafety ==
    pc = "gvar_try_parse" =>
        \/ ret.ok
        \/ ret.kind \in {"Truncated", "Malformed"}

\* A value in [-1, 1].
Normalized(v) == Le(Num(-1), v) /\ Le(v, Num(1))

\* The invariant of a tuple as stated, for a table of axis_count axes and a
\* glyph of num_packed_points points.
StatedTupleInvariant(t, axis_count, num_packed_points) ==
    /\ Len(t.peak) = axis_count
    /\ \A i \in 1 .. Len(t.peak) : Normalized(t.peak[i])
    /\ t.interm.present =>
           /\ Len(t.interm.start) = axis_count
           /\ Len(t.interm.end) = axis_count
           /\ \A i \in 1 .. axis_count :
                  /\ Normalized(t.interm.start[i])
                  /\ Normalized(t.interm.end[i])
                  /\ Le(t.interm.start[i], t.peak[i])
                  /\ Le(t.peak[i], t.interm.end[i])
    /\ \A k \in 1 .. Len(t.points) : t.points[k] < num_packed_points + 4
    /\ Len(t.deltas) = IF Len(t.points) > 0 THEN Len(t.points)
                       ELSE num_packed_points + 4

\* The accumulator slots a tuple adds to when it is applied to an outline
\* of num_packed_points points: slot k for delta k of a tuple without point
\* numbers, else the slots of the points listed.
SlotsIndexed(t) ==
    IF Len(t.points) = 0 THEN {k - 1 : k \in 1 .. Len(t.deltas)}
    ELSE {t.points[k] : k \in 1 .. Len(t.points)}

----------------------------------------------------------------------------
(* AvarTable::try_parse on byte buffers.                                   *)

AvarTruncated == Error("Truncated", "AvarTable")
AvarMalformed == Error("Malformed", "AvarTable")

\* The axisValueMaps of one segment map: position_map_count pairs of
\* F2Dot14 values after the count.
axis_value_maps(bytes, segment_map_offset, position_map_count) ==
    [i \in 1 .. position_map_count |->
        [from_coord |-> read_f2dot14(bytes,
                                     segment_map_offset + 2 + ((i - 1) * 4)),
         to_coord   |-> read_f2dot14(bytes,
                                     segment_map_offset + 4 + ((i - 1) * 4))]]

\* The loop over the axes: reads `remaining` segment maps from
\* segment_map_offset on and appends them to segment_maps.
RECURSIVE avar_segment_maps(_, _, _, _)
avar_segment_maps(bytes, segment_map_offset, remaining, segment_maps) ==
    IF remaining = 0 THEN [ok |-> TRUE, segment_maps |-> segment_maps]
    ELSE IF segment_map_offset + 2 > Len(bytes) THEN AvarTruncated
    ELSE LET position_map_count == be_u16(bytes, segment_map_offset)
         IN  IF segment_map_offset + 2 + (position_map_count * 4)
                    > Len(bytes)
             THEN AvarTruncated
             ELSE avar_segment_maps(
                      bytes,
                      segment_map_offset + 2 + (position_map_count * 4),
                      remaining - 1,
                      Append(segment_maps,
                             [axis_value_maps |->
                                 axis_value_maps(bytes, segment_map_offset,
                                                 position_map_count)]))

AvarTable_try_parse(bytes, table_offset) ==
    IF table_offset + 8 > Len(bytes) THEN AvarTruncated
    ELSE
    LET major_version == be_u16(bytes, table_offset)
        minor_version == be_u16(bytes, table_offset + 2)
    IN
    IF major_version # 1 \/ minor_version # 0
    THEN Error("UnexpectedVersion", "AvarTable")
    ELSE IF be_u16(bytes, table_offset + 4) # 0 THEN AvarMalformed
    ELSE
    LET axis_count == be_u16(bytes, table_offset + 6)
        maps == avar_segment_maps(bytes, table_offset + 8, axis_count, <<>>)
    IN
    IF ~maps.ok THEN maps
    ELSE IF \E k \in 1 .. Len(maps.segment_maps) :
                ~AvarAccepts(maps.segment_maps[k].axis_value_maps)
    THEN AvarMalformed
    ELSE [ok |-> TRUE,
          major_version |-> major_version,
          minor_version |-> minor_version,
          segment_maps  |-> maps.segment_maps]

----------------------------------------------------------------------------
(* Specification SpecAvar: AvarTable::try_parse on avar tables whose        *)
(* segment maps are arbitrary entry lists.                                  *)

\* The two bytes of an F2Dot14 value.
F2Dot14Bytes(r) == U16((r[1] * (16384 \div r[2])) % 65536)

AvarZero == [from_coord |-> Num(0), to_coord |-> Num(0)]

\* First and last entries tried: the required ones and wrong ones.
AvarEnds == {AvarFirst, AvarLast, AvarZero}

\* Interior entries tried: both coordinates from -1/2, 0 and 1/2.
AvarInterior ==
    {e \in AvarEntry : {e.from_coord, e.to_coord} \cap {Num(-1), Num(1)} = {}}

\* Entry lists of 0 .. MaxMapLen entries, with any interior entries.
AvarCandidates ==
    {<<>>}
      \cup {<<e>> : e \in AvarEnds}
      \cup {<<a, b>> : a \in AvarEnds, b \in AvarEnds}
      \cup UNION {{<<a>> \o mid \o <<b>> :
                      a \in AvarEnds, b \in AvarEnds,
                      mid \in [1 .. n -> AvarInterior]} :
                  n \in 1 .. MaxMapLen - 2}

RECURSIVE AvarEntryBytes(_)
AvarEntryBytes(m) ==
    IF m = <<>> THEN <<>>
    ELSE F2Dot14Bytes(Head(m).from_coord) \o F2Dot14Bytes(Head(m).to_coord)
             \o AvarEntryBytes(Tail(m))

SegmentMapBytes(m) == U16(Len(m)) \o AvarEntryBytes(m)

AvarHeader(major, reserved, axis_count) ==
    U16(major) \o U16(0) \o U16(reserved) \o U16(axis_count)

AvarIdentity == <<AvarFirst, AvarZero, AvarLast>>

\* One-axis tables over every candidate, two-axis tables whose first map
\* is empty or the identity, tables cut short, and tables with a wrong
\* version or a non-zero reserved field.
AvarBuffers ==
    {AvarHeader(1, 0, 1) \o SegmentMapBytes(m) : m \in AvarCandidates}
      \cup {AvarHeader(1, 0, 2) \o SegmentMapBytes(f) \o SegmentMapBytes(m) :
               f \in {<<>>, AvarIdentity},
               m \in {c \in AvarCandidates : Len(c) <= 3}}
      \cup Prefixes(AvarHeader(1, 0, 1) \o SegmentMapBytes(AvarIdentity))
      \cup {AvarHeader(2, 0, 1) \o SegmentMapBytes(AvarIdentity),
            AvarHeader(1, 1, 1) \o SegmentMapBytes(AvarIdentity)}

InitAvar ==
    /\ font = EmptyFont
    /\ pc = "idle"
    /\ call = <<>>
    /\ ret = <<>>

AvarTryParse ==
    /\ pc = "idle"
    /\ \E bytes \in AvarBuffers :
          /\ call' = [bytes |-> bytes, table_offset |-> 0]
          /\ ret' = AvarTable_try_parse(bytes, 0)
    /\ pc' = "avar_try_parse"
    /\ UNCHANGED font

NextAvar == AvarTryParse

SpecAvar == InitAvar /\ [][NextAvar]_vars

\* C18: every non-empty segment map of a table returned by try_parse has
\* at least 3 entries, starts with (-1,-1), ends with (+1,+1), contains an
\* entry (0,0) and is strictly increasing in both coordinates from each
\* entry to the next; a table with a map violating one of these is not
\* returned (it is rejected with Malformed).
C18_AvarAcceptanceInvariant ==
    (pc = "avar_try_parse" /\ ret.ok) =>
        \A k \in 1 .. Len(ret.segment_maps) :
            LET m == ret.segment_maps[k].axis_value_maps
            IN  m # <<>> =>
                    /\ Len(m) >= 3
                    /\ m[1] = AvarFirst
                    /\ m[Len(m)] = AvarLast
                    /\ \E i \in 1 .. Len(m) : m[i] = AvarZero
                    /\ StrictlyMonotonic(m)

----------------------------------------------------------------------------
(* DeltaSetIndexMap::try_parse (hvar_table.rs lines 353-414).               *)

IndexMapTruncated == Error("Truncated", "HvarTable")
IndexMapMalformed == Error("Malformed", "HvarTable")

RECURSIVE TwoTo(_)
TwoTo(n) == IF n = 0 THEN 1 ELSE 2 * TwoTo(n - 1)

\* Lines 397-401: the entry_size bytes from map_data_offset on, as a
\* big-endian u32; v is kept as its <<high, low>> 16-bit halves.
RECURSIVE entry_value(_, _, _, _)
entry_value(bytes, map_data_offset, entry_size, v) ==
    IF entry_size = 0 THEN v
    ELSE entry_value(bytes, map_data_offset + 1, entry_size - 1,
                     <<(v[1] * 256 + v[2] \div 256) % 65536,
                       (v[2] * 256 + bytes[map_data_offset + 1]) % 65536>>)

\* Lines 406-407 on the halves of v, for a bit count of 1 .. 16.
shift_right(v, n) == v[1] * TwoTo(16 - n) + v[2] \div TwoTo(n)
mask_low(v, n) == v[2] % TwoTo(n)

\* Lines 396-409: the loop over the entries; each is pushed as
\* [outer index, inner index].
RECURSIVE index_map_entries(_, _, _, _, _, _)
index_map_entries(bytes, map_data_offset, remaining, entry_size, inner_index_bit_count, map_data) ==
    IF remaining = 0 THEN map_data
    ELSE LET v == entry_value(bytes, map_data_offset, entry_size, <<0, 0>>)
         IN  index_map_entries(
                 bytes, map_data_offset + entry_size, remaining - 1,
                 entry_size, inner_index_bit_count,
                 Append(map_data,
                        <<shift_right(v, inner_index_bit_count),
                          mask_low(v, inner_index_bit_count)>>))

\* Lines 379-413: the map after its count: map_data_offset is the header
\* length, 4 or 6.
index_map_body(bytes, entry_format, map_count, map_data_offset) ==
    LET entry_size == ((entry_format \div 16) % 4) + 1
    IN  IF entry_size = 0 \/ entry_size > 4 THEN IndexMapMalformed
        ELSE IF map_data_offset + (map_count * entry_size) > Len(bytes)
        THEN IndexMapTruncated
        ELSE [ok |-> TRUE,
              map_data |-> index_map_entries(bytes, map_data_offset,
                                             map_count, entry_size,
                                             (entry_format % 16) + 1, <<>>)]

DeltaSetIndexMap_try_parse(bytes, map_offset) ==
    IF map_offset + 2 > Len(bytes) THEN IndexMapTruncated
    ELSE LET format == bytes[map_offset + 1]
             entry_format == bytes[map_offset + 2]
         IN  IF format = 0
             THEN IF map_offset + 4 > Len(bytes) THEN IndexMapTruncated
                  ELSE index_map_body(bytes, entry_format,
                                      be_u16(bytes, map_offset + 2), 4)
             ELSE IF format = 1
             THEN IF map_offset + 6 > Len(bytes) THEN IndexMapTruncated
                  ELSE index_map_body(bytes, entry_format,
                                      be_u32(bytes, map_offset + 2), 6)
             ELSE IndexMapMalformed

----------------------------------------------------------------------------
(* Specification of the DeltaSetIndexMap::try_parse calls: maps of up to   *)
(* MaxEntries entries at offset 0 and behind two other bytes.              *)

MaxEntries == 2

\* entryFormat values: 1-byte entries with a 1-bit inner index, 2-byte
\* entries with 4 bits, 3-byte entries with 16 bits, 4-byte entries with 8.
EntryFormats == {0, 16 + 3, 32 + 15, 48 + 7}

\* Bytes ahead of a map that does not start the buffer.
MapPadding == <<170, 187>>

\* Entry data: n bytes that all differ, or n bytes 255.
EntryData(n) == {[k \in 1 .. n |-> 17 * k], [k \in 1 .. n |-> 255]}

IndexMapHeader(format, entry_format, map_count) ==
    <<format, entry_format>>
        \o (IF format = 1 THEN U32(map_count) ELSE U16(map_count))

\* <<buffer, map_offset>>: every map, with two bytes more than its entries
\* need, and every truncation of it.
IndexMapInputs ==
    UNION {{<<p, Len(pad)>> :
               p \in Prefixes(pad \o IndexMapHeader(format, ef, n) \o d)} :
              pad \in {<<>>, MapPadding}, format \in {0, 1, 2},
              ef \in EntryFormats, n \in 0 .. MaxEntries,
              d \in EntryData(4 * MaxEntries + 2)}

InitIndexMap ==
    /\ font = EmptyFont
    /\ pc = "idle"
    /\ call = <<>>
    /\ ret = <<>>

IndexMapTryParse ==
    /\ pc = "idle"
    /\ \E in \in IndexMapInputs :
          /\ call' = [bytes |-> in[1], map_offset |-> in[2]]
          /\ ret' = DeltaSetIndexMap_try_parse(in[1], in[2])
    /\ pc' = "index_map_try_parse"
    /\ UNCHANGED font

NextIndexMap == IndexMapTryParse

SpecIndexMap == InitIndexMap /\ [][NextIndexMap]_vars

\* The big-endian number of the n bytes after the first `offset` bytes.
RECURSIVE BigEndian(_, _, _)
BigEndian(bytes, offset, n) ==
    IF n = 0 THEN 0
    ELSE BigEndian(bytes, offset, n - 1) * 256 + bytes[offset + n]

\* The entries as stated, for a map whose header is complete.  An entry
\* is split after its low `inner_bits` bits: the two low bytes of the
\* entry hold them all.
StatedIndexMap(bytes, map_offset) ==
    LET entry_format == bytes[map_offset + 2]
        entry_size == ((entry_format \div 16) % 4) + 1
        inner_bits == (entry_format % 16) + 1
        H == IF bytes[map_offset + 1] = 0 THEN 4 ELSE 6
        map_count == IF H = 4 THEN be_u16(bytes, map_offset + 2)
                     ELSE be_u32(bytes, map_offset + 2)
        at(j) == map_offset + H + j * entry_size
        lowlen == IF entry_size < 2 THEN entry_size ELSE 2
        low(j) == BigEndian(bytes, at(j) + entry_size - lowlen, lowlen)
        high(j) == BigEndian(bytes, at(j), entry_size - lowlen)
    IN  IF map_offset + H + map_count * entry_size > Len(bytes)
        THEN IndexMapTruncated
        ELSE [ok |-> TRUE,
              map_data |-> [k \in 1 .. map_count |->
                               <<high(k - 1) * TwoTo(16 - inner_bits)
                                     + low(k - 1) \div TwoTo(inner_bits),
                                 low(k - 1) % TwoTo(inner_bits)>>]]

\* The header of the map is inside the buffer and names format 0 or 1.
IndexMapHeaderRead(bytes, map_offset) ==
    /\ map_offset + 2 <= Len(bytes)
    /\ bytes[map_offset + 1] \in {0, 1}
    /\ map_offset + (IF bytes[map_offset + 1] = 0 THEN 4 ELSE 6) <= Len(bytes)

\* C27: for a map at map_offset, entry j is the big-endian number of the
\* entrySize = ((entryFormat >> 4) & 3) + 1 bytes at
\* map_offset + H + j * entrySize, H being 4 for format 0 and 6 for format
\* 1; its low (entryFormat & 0x0F) + 1 bits are the inner index and the
\* bits above them the outer index; all these reads lie inside the buffer
\* or the parse fails with Truncated.
C27_DeltaSetIndexMapDecoding ==
    (pc = "index_map_try_parse"
        /\ IndexMapHeaderRead(call.bytes, call.map_offset)) =>
        ret = StatedIndexMap(call.bytes, call.map_offset)

----------------------------------------------------------------------------
(* CmapSubtable::try_parse, format 4 (cmap_table.rs lines 100-282).        *)

CmapTruncated == Error("Truncated", "CmapSubtable")
CmapMalformed == Error("Malformed", "CmapSubtable")

\* i16::from_be_bytes.
be_i16(bytes, offset) ==
    IF be_u16(bytes, offset) >= 32768 THEN be_u16(bytes, offset) - 65536
    ELSE be_u16(bytes, offset)

\* Lines 156-191: the seg_count segments of the four parallel arrays.
cmap_segments(bytes, base_offset, seg_count) ==
    LET end_code_offset == base_offset + 14
        start_code_offset == end_code_offset + (seg_count * 2) + 2
        id_delta_offset == start_code_offset + (seg_count * 2)
        id_range_offset_offset == id_delta_offset + (seg_count * 2)
    IN  [i \in 1 .. seg_count |->
            [end_code |-> be_u16(bytes, end_code_offset + ((i - 1) * 2)),
             start_code |-> be_u16(bytes, start_code_offset + ((i - 1) * 2)),
             id_delta |-> be_i16(bytes, id_delta_offset + ((i - 1) * 2)),
             id_range_offset |->
                 be_u16(bytes, id_range_offset_offset + ((i - 1) * 2))]]

\* Lines 156-159: the offset of the idRangeOffset array.
id_range_offset_offset(base_offset, seg_count) ==
    base_offset + 14 + (seg_count * 2) + 2 + (seg_count * 2) + (seg_count * 2)

\* Lines 234-235 and 261-262: ((v as i32 + id_delta as i32) & 0xFFFF).
add_id_delta(v, id_delta) == (v + id_delta + 65536) % 65536

\* Lines 239-263: the glyph of `code` read through the glyph id array;
\* sum is (code - start_code) + id_range_offset as the u16 addition left it.
glyph_id_lookup(bytes, seg, i, iro_offset, sum) ==
    LET glyph_id_offset == 2 + iro_offset + ((i + (sum \div 2)) * 2)
    IN  IF glyph_id_offset + 2 > Len(bytes) THEN CmapMalformed
        ELSE [ok |-> TRUE,
              glyph_id |-> add_id_delta(be_u16(bytes, glyph_id_offset),
                                        seg.id_delta)]

\* Lines 233-264: the glyph id inserted for `code` of segment i (0-based).
\* The u16 addition of line 242-243 panics with overflow checks and wraps
\* without.
code_glyph_id(bytes, seg, i, iro_offset, code, overflow_checks) ==
    IF seg.id_range_offset = 0
    THEN [ok |-> TRUE, glyph_id |-> add_id_delta(code, seg.id_delta)]
    ELSE IF (code - seg.start_code) + seg.id_range_offset > 65535
            /\ overflow_checks
    THEN Abort
    ELSE glyph_id_lookup(bytes, seg, i, iro_offset,
                         ((code - seg.start_code) + seg.id_range_offset)
                             % 65536)

\* Lines 232-265: the loop over the codes of a segment, from `code` to e.
RECURSIVE cmap_codes(_, _, _, _, _, _, _, _)
cmap_codes(bytes, seg, i, iro_offset, code, e, glyph_id_map, overflow_checks) ==
    IF code > e THEN [ok |-> TRUE, glyph_id_map |-> glyph_id_map]
    ELSE LET g == code_glyph_id(bytes, seg, i, iro_offset, code,
                                overflow_checks)
         IN  IF ~g.ok THEN g
             ELSE cmap_codes(bytes, seg, i, iro_offset, code + 1, e,
                             (code :> g.glyph_id) @@ glyph_id_map,
                             overflow_checks)

\* Lines 224-226: the first code mapped of a segment that starts at s; -1
\* stands for the panic of `previous_code + 1` with overflow checks.
first_code(s, previous_code, overflow_checks) ==
    IF s <= previous_code
    THEN IF previous_code = 65535
         THEN IF overflow_checks THEN -1 ELSE 0
         ELSE previous_code + 1
    ELSE s

\* Lines 213-268: the loop over the segments from segment i (0-based) on.
RECURSIVE cmap_segment_loop(_, _, _, _, _, _, _)
cmap_segment_loop(bytes, segments, i, previous_code, iro_offset, glyph_id_map, overflow_checks) ==
    IF i >= Len(segments) THEN [ok |-> TRUE, glyph_id_map |-> glyph_id_map]
    ELSE IF segments[i + 1].start_code > segments[i + 1].end_code
    THEN CmapMalformed
    ELSE LET s == first_code(segments[i + 1].start_code, previous_code,
                             overflow_checks)
         IN  IF s = -1 THEN Abort
             ELSE IF s > segments[i + 1].end_code
             THEN cmap_segment_loop(bytes, segments, i + 1, previous_code,
                                    iro_offset, glyph_id_map, overflow_checks)
             ELSE LET r == cmap_codes(bytes, segments[i + 1], i, iro_offset,
                                      s, segments[i + 1].end_code,
                                      glyph_id_map, overflow_checks)
                  IN  IF ~r.ok THEN r
                      ELSE cmap_segment_loop(bytes, segments, i + 1,
                                             segments[i + 1].end_code,
                                             iro_offset, r.glyph_id_map,
                                             overflow_checks)

\* Lines 193-273: the last segment is popped and checked, the others are
\* mapped.
cmap_format4_map(bytes, language, segments, iro_offset, overflow_checks) ==
    IF segments[Len(segments)].start_code # 65535
           \/ segments[Len(segments)].end_code # 65535
    THEN CmapMalformed
    ELSE LET r == cmap_segment_loop(bytes,
                                    SubSeq(segments, 1, Len(segments) - 1),
                                    0, 0, iro_offset, <<>>, overflow_checks)
         IN  IF ~r.ok THEN r
             ELSE [ok |-> TRUE, language |-> language,
                   glyph_id_map |-> r.glyph_id_map]

\* Lines 112-146: the header of a format 4 subtable.
cmap_format4(bytes, base_offset, overflow_checks) ==
    IF base_offset + 14 > Len(bytes) THEN CmapTruncated
    ELSE LET seg_count == be_u16(bytes, base_offset + 6) \div 2
         IN  IF seg_count = 0 THEN CmapMalformed
             ELSE IF base_offset + 16 + (seg_count * 8) > Len(bytes)
             THEN CmapTruncated
             ELSE cmap_format4_map(
                      bytes, be_u16(bytes, base_offset + 4),
                      cmap_segments(bytes, base_offset, seg_count),
                      id_range_offset_offset(base_offset, seg_count),
                      overflow_checks)

CmapSubtable_try_parse(bytes, base_offset, overflow_checks) ==
    IF base_offset + 2 > Len(bytes) THEN CmapTruncated
    ELSE IF be_u16(bytes, base_offset) = 4
    THEN cmap_format4(bytes, base_offset, overflow_checks)
    ELSE Error("FormatNotSupported", "CmapSubtable")

----------------------------------------------------------------------------
(* Specification of the CmapSubtable::try_parse calls: format 4 subtables  *)
(* of up to MaxSegments segments ahead of the last one.                    *)

MaxSegments == 2

Segment(start_code, end_code, id_delta, id_range_offset) ==
    [start_code |-> start_code, end_code |-> end_code,
     id_delta |-> id_delta, id_range_offset |-> id_range_offset]

\* Segments tried ahead of the last one: codes 0 and 1; codes 2 and 3 with
\* a delta that wraps; codes 2 to 5 through the glyph id array; start past
\* end; codes 1 and 2; the two highest codes; codes 2 and 3 with the
\* largest idRangeOffset; code 2 with an idRangeOffset far past the buffer.
SegmentChoices ==
    {Segment(0, 1, 5, 0),
     Segment(2, 3, -3, 0),
     Segment(2, 5, 1, 4),
     Segment(3, 2, 0, 0),
     Segment(1, 2, 0, 0),
     Segment(65534, 65535, 1, 0),
     Segment(2, 3, 0, 65535),
     Segment(2, 2, 0, 2000)}

\* Last segments tried: the required one and one that starts too early.
LastSegments == {Segment(65535, 65535, 1, 0), Segment(65534, 65535, 1, 0)}

\* Lists of segments, the two highest codes in at most one of them.
SegmentLists ==
    {l \in UNION {[1 .. n -> SegmentChoices] : n \in 0 .. MaxSegments} :
        Cardinality({i \in 1 .. Len(l) : l[i].end_code = 65535}) <= 1}

\* Glyph id arrays tried: none, and six words.
GlyphIdArrays == {<<>>, U16(10) \o U16(20) \o U16(30) \o U16(40) \o U16(50) \o U16(60)}

RECURSIVE FieldBytes(_, _)
FieldBytes(segs, field) ==
    IF segs = <<>> THEN <<>>
    ELSE U16((Head(segs)[field] + 65536) % 65536)
             \o FieldBytes(Tail(segs), field)

\* A format 4 subtable with the segments segs and the glyph id array gia.
CmapBytes(segs, gia) ==
    U16(4) \o U16(0) \o U16(0) \o U16(2 * Len(segs))
        \o U16(0) \o U16(0) \o U16(0)
        \o FieldBytes(segs, "end_code") \o U16(0)
        \o FieldBytes(segs, "start_code")
        \o FieldBytes(segs, "id_delta")
        \o FieldBytes(segs, "id_range_offset")
        \o gia

\* Subtables with and without a last segment, subtables cut short, and a
\* subtable of another format.
CmapBuffers ==
    {CmapBytes(l \o <<t>>, gia) :
        l \in SegmentLists, t \in LastSegments, gia \in GlyphIdArrays}
      \cup {CmapBytes(l, <<>>) : l \in SegmentLists}
      \cup Prefixes(CmapBytes(<<Segment(0, 1, 5, 0),
                                Segment(65535, 65535, 1, 0)>>, <<>>))
      \cup {U16(12) \o U16(0)}

\* Bytes ahead of a subtable that does not start the buffer.
CmapPadding == <<0, 1>>

InitCmap ==
    /\ font = EmptyFont
    /\ pc = "idle"
    /\ call = <<>>
    /\ ret = <<>>

CmapTryParse ==
    /\ pc = "idle"
    /\ \E b \in CmapBuffers, pad \in {<<>>, CmapPadding},
          overflow_checks \in BOOLEAN :
          /\ call' = [bytes |-> pad \o b, base_offset |-> Len(pad),
                      overflow_checks |-> overflow_checks]
          /\ ret' = CmapSubtable_try_parse(pad \o b, Len(pad),
                                           overflow_checks)
    /\ pc' = "cmap_try_parse"
    /\ UNCHANGED font

NextCmap == CmapTryParse

SpecCmap == InitCmap /\ [][NextCmap]_vars

\* The header and the four arrays of a format 4 subtable are inside the
\* buffer.
CmapHeaderRead(bytes, base_offset) ==
    /\ base_offset + 14 <= Len(bytes)
    /\ be_u16(bytes, base_offset) = 4
    /\ be_u16(bytes, base_offset + 6) \div 2 > 0
    /\ base_offset + 16 + (be_u16(bytes, base_offset + 6) \div 2) * 8
           <= Len(bytes)

\* All segments of the subtable of the call, the last one included.
CallSegments ==
    cmap_segments(call.bytes, call.base_offset,
                  be_u16(call.bytes, call.base_offset + 6) \div 2)

\* The segments (1-based) ahead of the last one that contain the code c.
Containing(c) ==
    {i \in 1 .. Len(CallSegments) - 1 :
        CallSegments[i].start_code <= c /\ c <= CallSegments[i].end_code}

\* The position of the idRangeOffset entry of segment i (1-based).
RangeOffsetPosition(i) ==
    call.base_offset + 16 + 6 * Len(CallSegments) + 2 * (i - 1)

\* The position of the word stated for code c of segment i: id_range_offset
\* + 2 * (c - start_code) bytes after the segment's idRangeOffset entry.
StatedWordPosition(i, c) ==
    RangeOffsetPosition(i) + CallSegments[i].id_range_offset
        + 2 * (c - CallSegments[i].start_code)

\* The glyph id stated for code c of segment i.
StatedGlyphId(i, c) ==
    IF CallSegments[i].id_range_offset = 0
    THEN (c + CallSegments[i].id_delta + 65536) % 65536
    ELSE (be_u16(call.bytes, StatedWordPosition(i, c))
              + CallSegments[i].id_delta + 65536) % 65536

\* C28: for segment i and a mapped code c, the glyph id is (c + id_delta)
\* mod 65536 if id_range_offset is 0, and otherwise (w + id_delta) mod
\* 65536, w being the 16-bit word id_range_offset + 2 * (c - start_code)
\* bytes after the position of segment i's own id_range_offset entry; an
\* offset beyond the buffer is an error, and no 16-bit intermediate sum
\* overflows.
C28_Cmap4GlyphLookup ==
    (pc = "cmap_try_parse" /\ CmapHeaderRead(call.bytes, call.base_offset)) =>
        /\ ret # Abort
        /\ ret.ok =>
               \A c \in DOMAIN ret.glyph_id_map :
                   \A i \in Containing(c) :
                       Containing(c) = {i} =>
                           /\ CallSegments[i].id_range_offset # 0 =>
                                  StatedWordPosition(i, c) + 2
                                      <= Len(call.bytes)
                           /\ ret.glyph_id_map[c] = StatedGlyphId(i, c)

\* The first segment that contains the code c.
FirstContaining(c) == CHOOSE i \in Containing(c) : \A j \in Containing(c) : i <= j

\* The codes of the segments ahead of the last one.
SegmentCodes ==
    UNION {CallSegments[i].start_code .. CallSegments[i].end_code :
              i \in 1 .. Len(CallSegments) - 1}

\* C29: when CmapSubtable::try_parse succeeds, the last segment was
\* (0xFFFF, 0xFFFF) and the keys of the map are exactly the codes in
\* [start_code, end_code] of some segment ahead of it, each mapped by the
\* first segment that contains it; every code of the first segment, code 0
\* included, is present; a segment with start_code > end_code is rejected
\* as Malformed.
C29_Cmap4KeySet ==
    (pc = "cmap_try_parse" /\ CmapHeaderRead(call.bytes, call.base_offset)) =>
        /\ ret.ok =>
               /\ CallSegments[Len(CallSegments)].start_code = 65535
               /\ CallSegments[Len(CallSegments)].end_code = 65535
               /\ DOMAIN ret.glyph_id_map = SegmentCodes
               /\ \A c \in DOMAIN ret.glyph_id_map \cap SegmentCodes :
                      CallSegments[FirstContaining(c)].id_range_offset = 0 =>
                          ret.glyph_id_map[c]
                              = StatedGlyphId(FirstContaining(c), c)
        /\ (/\ CallSegments[Len(CallSegments)].start_code = 65535
            /\ CallSegments[Len(CallSegments)].end_code = 65535
            /\ \E i \in 1 .. Len(CallSegments) - 1 :
                   CallSegments[i].start_code > CallSegments[i].end_code) =>
               ret = CmapMalformed

=============================================================================
